---- MODULE Spec2Model ----
(***************************************************************************)
(* A state-machine model of app::VulkanBackend (vulkanbackend.cpp): device *)
(* bring-up, per-image fences, the prepareFrame / submitFrame cycle and    *)
(* the resize path.  Vulkan objects are fresh handles (naturals, 0 is the  *)
(* null handle); the GPU is a set of pending submissions that complete     *)
(* asynchronously.  The swapchain class is not part of the modelled        *)
(* sources: its operations are modelled from the specification.            *)
(***************************************************************************)
EXTENDS Integers, Sequences, FiniteSets, TLC

(***************************************************************************)
(* Bounds of the model.                                                    *)
(***************************************************************************)
MaxDevices == 2
MaxFamilies == 2
MaxImages == 2
MaxResizes == 1
MaxDim == 2
MaxDepthCalls == 3
MaxAdds == 2
MaxGuiInits == 2
MaxHandle == 24
MaxMemTypes == 3
MaxMainResizes == 2
MaxScroll == 3
MaxExtent == 17

(***************************************************************************)
(* Program constants.                                                      *)
(***************************************************************************)
\* uint32_t.  The type has 2^32 values, 0 .. 4294967295, and an integer of
\* the model checker ends at 2^31 - 1: a value of the type is written as the
\* pair <<high, low>> of its two 16-bit halves, the value high * 2^16 + low.
\* HalfMod is the number of values of one half.
HalfMod == 2 ^ 16
\* the conversion of a signed 32-bit integer to uint32_t: the value modulo
\* 2^32 (-1 becomes <<65535, 65535>>, that is 4294967295)
ToUInt(x) == << (x \div HalfMod) % HalfMod, x % HalfMod >>
\* a < b on two values of the type
UIntLess(a, b) == a[1] < b[1] \/ (a[1] = b[1] /\ a[2] < b[2])
\* uint32_t graphicsIdx = -1, uint32_t memoryTypeIdx = -1
NoIdx == ToUInt(0 - 1)
\* the null handle (VK_NULL_HANDLE) of every vk:: wrapper
NullHandle == 0
\* "never assigned": a member the constructor leaves without a value, for
\* a member whose values are strings
Unset == "unset"
\* "never assigned", for a member whose values are queue family indices
\* (uint32_t): no value of the type
UnsetIdx == <<>>
\* "never assigned", for a member whose values are tuples (a queue, a window
\* size)
UnsetPair == <<>>

\* vk::QueueFlagBits tested at vulkanbackend.cpp:181-184
QueueBits == {"G", "C", "T"}
\* the device extensions main.cpp requests (main.cpp:172-173)
ReqExts == {"VK_KHR_swapchain", "VK_KHR_get_memory_requirements2"}

\* VkSampleCountFlagBits values, as tested at vulkanbackend.cpp:217-222
SampleBits == <<64, 32, 16, 8, 4, 2>>

Min(a, b) == IF a < b THEN a ELSE b

\* the elements of a vector, as a set
Range(s) == { s[i] : i \in 1..Len(s) }

\* (mask & bit) != 0 for a single-bit value bit
HasBit(mask, bit) == (mask \div bit) % 2 = 1

(***************************************************************************)
(* ContextCreateInfo: the constructor and the three add functions.         *)
(***************************************************************************)
KhronosLayer == "VK_LAYER_KHRONOS_validation"

\* the constructor, for the value it finds in enableValidationLayers
ContextCreateInfoCtor(enable) ==
    [ enableValidationLayers |-> enable,
      numDeviceExtensions |-> 0, deviceExtensions |-> <<>>,
      numValidationLayers |-> IF enable THEN 1 ELSE 0,
      validationLayers |-> IF enable THEN <<KhronosLayer>> ELSE <<>>,
      numInstanceExtensions |-> IF enable THEN 1 ELSE 0,
      instanceExtensions |-> IF enable THEN <<"VK_EXT_debug_utils">> ELSE <<>> ]

addDeviceExtension(ci, name) ==
    [ci EXCEPT !.numDeviceExtensions = @ + 1,
               !.deviceExtensions = Append(@, name)]

addInstanceExtension(ci, name) ==
    [ci EXCEPT !.numInstanceExtensions = @ + 1,
               !.instanceExtensions = Append(@, name)]

addValidationLayer(ci, name) ==
    [ci EXCEPT !.numValidationLayers = @ + 1,
               !.deviceExtensions = Append(@, name)]

\* the configuration main builds before it calls setupVulkan
MainInfo(enable) ==
    addDeviceExtension(
      addDeviceExtension(
        addInstanceExtension(
          addInstanceExtension(
            addInstanceExtension(ContextCreateInfoCtor(enable), "VK_KHR_surface"),
            "VK_KHR_win32_surface"),
          "VK_KHR_get_physical_device_properties2"),
        "VK_KHR_swapchain"),
      "VK_KHR_get_memory_requirements2")

(***************************************************************************)
(* Inputs: physical devices as the instance enumerates them.               *)
(***************************************************************************)
\* one VkQueueFamilyProperties entry plus the surface-support answer for it
FamilySet ==
    { [count |-> 0, flags |-> QueueBits, present |-> TRUE],
      [count |-> 1, flags |-> {"T"}, present |-> FALSE],
      [count |-> 1, flags |-> {}, present |-> TRUE],
      [count |-> 1, flags |-> QueueBits, present |-> TRUE] }

SeqsUpTo(S, n) == UNION { [1..k -> S] : k \in 0..n }

FamilyLists == SeqsUpTo(FamilySet, MaxFamilies)

\* framebufferColorSampleCounts = framebufferDepthSampleCounts = {1,2,4,8}
DefaultCounts == 1 + 2 + 4 + 8

\* a host-visible memory type followed by a device-local one
DefaultMemoryTypes == << {"HostVisible"}, {"DeviceLocal"} >>

\* the memory type lists a device may report
MemoryTypeLists == SeqsUpTo({{"HostVisible"}, {"DeviceLocal"}}, MaxMemTypes)

DeviceSet ==
    [ formats : 0..1, modes : 0..1, exts : {{}, ReqExts},
      fams : FamilyLists, color : {DefaultCounts}, depth : {DefaultCounts},
      memTypes : {DefaultMemoryTypes} ]

DeviceLists == SeqsUpTo(DeviceSet, MaxDevices)

\* sample-count masks in which the 1-sample bit is set
SampleMasks == { m \in 1..127 : m % 2 = 1 }

GoodFamily == [count |-> 1, flags |-> QueueBits, present |-> TRUE]

GoodDevice(c, d) ==
    [ formats |-> 1, modes |-> 1, exts |-> ReqExts,
      fams |-> <<GoodFamily>>, color |-> c, depth |-> d,
      memTypes |-> DefaultMemoryTypes ]

(***************************************************************************)
(* pickPhysicalDevice and its helpers, as pure functions.                  *)
(***************************************************************************)
\* checkDeviceExtensionSupport: every name of info.deviceExtensions is erased
\* by some extension the device reports
checkDeviceExtensionSupport(required, available) == Range(required) \ available = {}

\* the queue flags test of the first family loop: any of the three bits
FamilyFlagsTest(fam) == fam.flags \cap QueueBits # {}

RECURSIVE FindGraphicsFrom(_, _)
FindGraphicsFrom(fams, j) ==
    IF j > Len(fams) THEN NoIdx
    ELSE IF fams[j].count = 0 THEN FindGraphicsFrom(fams, j + 1)
    ELSE IF FamilyFlagsTest(fams[j]) THEN ToUInt(j - 1)
    ELSE FindGraphicsFrom(fams, j + 1)

RECURSIVE FindPresentFrom(_, _)
FindPresentFrom(fams, j) ==
    IF j > Len(fams) THEN NoIdx
    ELSE IF fams[j].count = 0 THEN FindPresentFrom(fams, j + 1)
    ELSE IF fams[j].present THEN ToUInt(j - 1)
    ELSE FindPresentFrom(fams, j + 1)

\* the acceptance test after the two loops: graphicsIdx >= 0 && presentIdx >= 0
\* on uint32_t values (the 0 is converted to the type of the index)
IndicesAccepted(graphicsIdx, presentIdx) ==
    ~UIntLess(graphicsIdx, ToUInt(0)) /\ ~UIntLess(presentIdx, ToUInt(0))

\* the if-chain 64, 32, ..., 2: every matching bit assigns, in this order
RECURSIVE SampleChain(_, _, _)
SampleChain(counts, k, cur) ==
    IF k > Len(SampleBits) THEN cur
    ELSE SampleChain(counts, k + 1,
                     IF HasBit(counts, SampleBits[k]) THEN SampleBits[k] ELSE cur)

\* rawCounts = std::min(color, depth), then the if-chain over it; prev is the
\* value m_sampleCount holds when no bit of the chain matches
SelectSampleCount(color, depth, prev) == SampleChain(Min(color, depth), 1, prev)

\* the device loop: the result of the first iteration that reaches the return,
\* or ok = FALSE when the loop runs off the end
RECURSIVE PickFrom(_, _, _)
PickFrom(devs, k, required) ==
    IF k > Len(devs) THEN [ok |-> FALSE, dev |-> NullHandle,
                           graphicsIdx |-> UnsetIdx, presentIdx |-> UnsetIdx]
    ELSE LET d == devs[k]
             g == FindGraphicsFrom(d.fams, 1)
             p == FindPresentFrom(d.fams, 1)
         IN  IF d.formats = 0 THEN PickFrom(devs, k + 1, required)
             ELSE IF d.modes = 0 THEN PickFrom(devs, k + 1, required)
             ELSE IF ~checkDeviceExtensionSupport(required, d.exts)
                  THEN PickFrom(devs, k + 1, required)
             ELSE IF IndicesAccepted(g, p)
                  THEN [ok |-> TRUE, dev |-> k, graphicsIdx |-> g, presentIdx |-> p]
             ELSE PickFrom(devs, k + 1, required)

(***************************************************************************)
(* State.                                                                  *)
(***************************************************************************)
VARIABLES
    pc,                 \* where the caller / the running call stands
    ip,                 \* index into SetupOrder of the next bring-up step
    done,               \* bring-up steps completed so far, in order
    resizeRet,          \* where onWindowResize returns to
    resizes,            \* swapchain rebuilds so far (bounded by MaxResizes)
    err,                \* what() of the exception that reached the caller
    info,               \* the ContextCreateInfo handed to setupVulkan
    devices,            \* the physical devices the instance enumerates
    winSize,            \* what glfwGetWindowSize reports at bring-up
    availableLayers,    \* what vk::enumerateInstanceLayerProperties reports
    exitCode,           \* what main returned (Unset while it runs)
    g_win,              \* main's g_winWidth, g_winHeight
    g_resizeRequest,    \* main's g_resizeRequest
    shouldClose,        \* glfwWindowShouldClose(window)
    printed,            \* what main wrote to std::cerr
    cameraView,         \* the window size main gave CameraView
    m_instance, m_debugMessenger, m_surface,
    enabledLayers,      \* the layers m_instance was created with
    m_physicalDevice, m_graphicsQueueIdx, m_presentQueueIdx, m_sampleCount,
    m_device, queueCreateInfos, m_graphicsQueue, m_presentQueue,
    m_swapchain,
    m_commandPool, m_commandBuffers,
    oneTimeBuffers,     \* one-time command buffers createDepthBuffer allocated
                        \* from m_commandPool and did not free (their number)
    m_depthView, m_depthImage, m_depthMemory,
    depthExtent,        \* the extent m_depthImage was created with
    m_renderPass, m_pipelineCache,
    m_framebuffers,
    m_fences,
    signaled,           \* the fences that are in the signaled state
    pending,            \* submissions the GPU has not completed yet
    m_size,             \* the stored extent
    camSize,            \* CameraManipulator's window size
    notified,           \* the size last passed to the onResize collaborator hook
    m_inputs,           \* m_inputs: the buttons and modifier keys held
    m_imguiDescPool,    \* the descriptor pool initGUI creates
    imguiCtx,           \* ImGui::GetCurrentContext() != nullptr
    imguiContexts,      \* the ImGui contexts created and not destroyed
    imguiDisplaySize,   \* ImGui::GetIO().DisplaySize as the backend last set it
    live,               \* handles created and not yet destroyed
    nextH,              \* the next fresh handle
    last                \* the most recent call of onWindowResize, submitFrame,
                        \* createDepthBuffer or destroy: its arguments and the
                        \* device calls it issued, in order

ctl == <<pc, ip, done, resizeRet, resizes, err>>
\* main's own state
app == <<exitCode, g_win, g_resizeRequest, shouldClose, printed, cameraView>>
env == <<info, devices, winSize, availableLayers, app>>
inst == <<m_instance, m_debugMessenger, m_surface, enabledLayers>>
phys == <<m_physicalDevice, m_graphicsQueueIdx, m_presentQueueIdx, m_sampleCount>>
dev == <<m_device, queueCreateInfos, m_graphicsQueue, m_presentQueue>>
cmd == <<m_commandPool, m_commandBuffers, oneTimeBuffers>>
depthv == <<m_depthView, m_depthImage, m_depthMemory, depthExtent>>
rp == <<m_renderPass, m_pipelineCache>>
sync == <<m_fences, signaled, pending>>
sz == <<m_size, camSize, notified>>
heap == <<live, nextH>>
gui == <<m_imguiDescPool, imguiCtx, imguiContexts, imguiDisplaySize>>

vars == <<ctl, env, inst, phys, dev, m_swapchain, cmd, depthv, rp,
          m_framebuffers, sync, sz, m_inputs, gui, heap, last>>

(***************************************************************************)
(* Initial state: a constructed VulkanBackend, before setupVulkan.         *)
(***************************************************************************)
Dims == 0..MaxDim
\* the window the application opens: g_winWidth = 800, g_winHeight = 600
InitialSize == <<800, 600>>

NoFormatsDevice == [GoodDevice(DefaultCounts, DefaultCounts) EXCEPT !.formats = 0]
NoPresentDevice ==
    [GoodDevice(DefaultCounts, DefaultCounts) EXCEPT
        !.fams = <<[count |-> 1, flags |-> {"T"}, present |-> FALSE]>>]

\* the enumerations the lifecycle specification starts from
MainDeviceLists ==
    { <<>>, <<NoFormatsDevice>>, <<GoodDevice(DefaultCounts, DefaultCounts)>>,
      <<NoPresentDevice>> }

NoSwapchain ==
    [live |-> FALSE, gen |-> 0, imageCount |-> 0, extent |-> <<0, 0>>,
     active |-> 0, acq |-> 0]

\* no call recorded yet
NoCall == [op |-> "none", arg |-> <<>>, calls |-> <<>>]

NoError == "none"

\* m_inputs as constructed: nothing held
NoInputs ==
    [lmb |-> FALSE, mmb |-> FALSE, rmb |-> FALSE,
     ctrl |-> FALSE, shift |-> FALSE, alt |-> FALSE]

\* main before its loop: nothing returned, no resize requested
MainNotRun ==
    /\ exitCode = Unset /\ g_win = InitialSize
    /\ g_resizeRequest = FALSE /\ shouldClose = FALSE
    /\ printed = NoError /\ cameraView = UnsetPair

\* the members setupVulkan has not reached before pickPhysicalDevice
MembersNull ==
    /\ MainNotRun
    /\ m_physicalDevice = NullHandle
    /\ m_graphicsQueueIdx = UnsetIdx /\ m_presentQueueIdx = UnsetIdx
    /\ m_sampleCount = 1
    /\ m_device = NullHandle /\ queueCreateInfos = <<>>
    /\ m_graphicsQueue = UnsetPair /\ m_presentQueue = UnsetPair
    /\ m_swapchain = NoSwapchain
    /\ m_commandPool = NullHandle /\ m_commandBuffers = <<>>
    /\ oneTimeBuffers = 0
    /\ m_depthView = NullHandle /\ m_depthImage = NullHandle
    /\ m_depthMemory = NullHandle /\ depthExtent = <<0, 0>>
    /\ m_renderPass = NullHandle /\ m_pipelineCache = NullHandle
    /\ m_framebuffers = <<>>
    /\ m_fences = <<>> /\ signaled = {} /\ pending = {}
    /\ notified = UnsetPair
    /\ m_inputs = NoInputs
    /\ m_imguiDescPool = NullHandle /\ imguiCtx = FALSE /\ imguiContexts = 0
    /\ imguiDisplaySize = UnsetPair
    /\ last = NoCall

\* a freshly constructed backend
ConstructedMembers ==
    /\ ip = 1 /\ done = <<>>
    /\ resizeRet = "ready" /\ resizes = 0 /\ err = NoError
    /\ m_instance = NullHandle /\ m_debugMessenger = NullHandle
    /\ m_surface = NullHandle /\ enabledLayers = <<>>
    /\ MembersNull
    /\ m_size = <<0, 0>> /\ camSize = UnsetPair
    /\ live = {} /\ nextH = 1

\* a freshly constructed backend, setupVulkan about to run
Constructed == pc = "setup" /\ ConstructedMembers

Init ==
    /\ info \in { MainInfo(enable) : enable \in BOOLEAN }
    /\ availableLayers \in SUBSET {KhronosLayer}
    /\ devices \in MainDeviceLists
    /\ winSize = InitialSize
    /\ Constructed

(***************************************************************************)
(* setupVulkan: the calls of its body, in the order of the source.         *)
(***************************************************************************)
\* a bring-up that builds the depth buffer before the command pool exists
SetupOrder_DepthBeforePool ==
    << "initInstance", "setupDebugMessenger", "createSurface",
       "pickPhysicalDevice", "createLogicalDeviceAndQueues", "createSwapChain",
       "createDepthBuffer", "createCommandPool", "createCommandBuffer",
       "createRenderPass", "createPipelineCache", "createFrameBuffers",
       "createSyncObjects" >>

SetupOrder ==
    << "initInstance", "setupDebugMessenger", "createSurface",
       "pickPhysicalDevice", "createLogicalDeviceAndQueues", "createSwapChain",
       "createCommandPool", "createCommandBuffer", "createDepthBuffer",
       "createRenderPass", "createPipelineCache", "createFrameBuffers",
       "createSyncObjects" >>

AtStep(name) == pc = "setup" /\ ip <= Len(SetupOrder) /\ SetupOrder[ip] = name

\* the step returns: setupVulkan goes on to the next call, or returns
StepReturns ==
    /\ done' = Append(done, SetupOrder[ip])
    /\ ip' = ip + 1
    /\ pc' = IF ip = Len(SetupOrder) THEN "ready" ELSE "setup"
    /\ UNCHANGED <<resizeRet, resizes, err>>

\* the step throws: the exception leaves setupVulkan
StepThrows(msg) ==
    /\ pc' = "setupFailed"
    /\ err' = msg
    /\ UNCHANGED <<ip, done, resizeRet, resizes>>

\* a call on an invalid handle or index brought the process down
Crashes ==
    /\ pc' = "crashed"
    /\ UNCHANGED <<ip, done, resizeRet, resizes, err>>

\* checkValidationLayerSupport: every name of info.validationLayers is the
\* name of some available layer
checkValidationLayerSupport(ci, available) ==
    \A i \in 1..Len(ci.validationLayers) : ci.validationLayers[i] \in available

\* what vk::createInstance reads as ppEnabledLayerNames: numValidationLayers
\* entries starting at validationLayers.data(); the entries past the end of
\* the vector are whatever the memory behind it holds
LayersRead(ci) ==
    IF ~ci.enableValidationLayers THEN <<>>
    ELSE [ i \in 1..ci.numValidationLayers |->
             IF i <= Len(ci.validationLayers) THEN ci.validationLayers[i]
             ELSE Unset ]

\* the layer count the create info carries stays inside the vector
LayerCountInRange(ci) ==
    ci.enableValidationLayers => ci.numValidationLayers <= Len(ci.validationLayers)

\* initInstance.  The vk::DynamicLoader it constructs first throws a
\* std::runtime_error when no Vulkan library can be loaded (loaded = FALSE),
\* before anything else is done.  With enableValidationLayers,
\* checkValidationLayerSupport calls vk::enumerateInstanceLayerProperties
\* outside any try block: when it fails (enumerated = FALSE) its
\* vk::SystemError leaves initInstance
InitInstance ==
    /\ AtStep("initInstance")
    /\ \E loaded \in BOOLEAN, enumerated \in BOOLEAN, created \in BOOLEAN, faults \in BOOLEAN :
         IF ~loaded
         THEN /\ StepThrows("Failed to load vulkan library!")
              /\ UNCHANGED <<inst, heap>>
         ELSE IF info.enableValidationLayers /\ ~enumerated
         THEN /\ StepThrows("vk::enumerateInstanceLayerProperties")
              /\ UNCHANGED <<inst, heap>>
         ELSE IF info.enableValidationLayers
            /\ ~checkValidationLayerSupport(info, availableLayers)
         THEN /\ StepThrows("validation layers requested, but not available!")
              /\ UNCHANGED <<inst, heap>>
         ELSE IF faults /\ ~LayerCountInRange(info)
         THEN Crashes /\ UNCHANGED <<inst, heap>>
         ELSE IF ~created
                 \/ (LayerCountInRange(info)
                     /\ ~(Range(LayersRead(info)) \subseteq availableLayers))
         THEN StepThrows("failed to create instance!") /\ UNCHANGED <<inst, heap>>
         ELSE /\ m_instance' = nextH
              /\ enabledLayers' = LayersRead(info)
              /\ live' = live \cup {nextH}
              /\ nextH' = nextH + 1
              /\ UNCHANGED <<m_debugMessenger, m_surface>>
              /\ StepReturns
    /\ UNCHANGED <<last, env, m_inputs, gui, phys, dev, m_swapchain, cmd, depthv, rp,
                   m_framebuffers, sync, sz>>

SetupDebugMessenger ==
    /\ AtStep("setupDebugMessenger")
    /\ \E created \in BOOLEAN :
         IF ~info.enableValidationLayers
         THEN StepReturns /\ UNCHANGED <<inst, heap>>
         ELSE IF ~created
         THEN /\ StepThrows("failed to set up debug messenger!")
              /\ UNCHANGED <<inst, heap>>
         ELSE /\ m_debugMessenger' = nextH
              /\ live' = live \cup {nextH}
              /\ nextH' = nextH + 1
              /\ UNCHANGED <<m_instance, m_surface, enabledLayers>>
              /\ StepReturns
    /\ UNCHANGED <<last, env, m_inputs, gui, phys, dev, m_swapchain, cmd, depthv, rp,
                   m_framebuffers, sync, sz>>

CreateSurface ==
    /\ AtStep("createSurface")
    /\ m_size' = winSize
    /\ \E created \in BOOLEAN :
         IF ~created
         THEN /\ StepThrows("failed to create window surface!")
              /\ UNCHANGED <<inst, heap, camSize>>
         ELSE /\ m_surface' = nextH
              /\ live' = live \cup {nextH}
              /\ nextH' = nextH + 1
              /\ camSize' = m_size'
              /\ UNCHANGED <<m_instance, m_debugMessenger, enabledLayers>>
              /\ StepReturns
    /\ UNCHANGED <<last, env, m_inputs, gui, phys, dev, m_swapchain, cmd, depthv, rp,
                   m_framebuffers, sync, notified>>

\* the calls of pickPhysicalDevice that report a VkResult, in the part of the
\* device loop this enumeration makes it run: enumeratePhysicalDevices, and
\* for every device the loop gets to, enumerateDeviceExtensionProperties,
\* getSurfaceFormatsKHR, getSurfacePresentModesKHR when there is a format,
\* getSurfaceSupportKHR when the present loop finds a family with queues
PickThrowingCalls(devs, required) ==
    LET r == PickFrom(devs, 1, required)
        visited == 1..(IF r.ok THEN r.dev ELSE Len(devs))
        calls(d) ==
            {"vk::PhysicalDevice::enumerateDeviceExtensionProperties",
             "vk::PhysicalDevice::getSurfaceFormatsKHR"}
            \cup (IF d.formats # 0
                  THEN {"vk::PhysicalDevice::getSurfacePresentModesKHR"}
                  ELSE {})
            \cup (IF /\ d.formats # 0 /\ d.modes # 0
                     /\ checkDeviceExtensionSupport(required, d.exts)
                     /\ \E j \in 1..Len(d.fams) : d.fams[j].count # 0
                  THEN {"vk::PhysicalDevice::getSurfaceSupportKHR"}
                  ELSE {})
    IN  {"vk::Instance::enumeratePhysicalDevices"}
        \cup UNION { calls(devs[k]) : k \in visited }

\* pickPhysicalDevice.  None of the calls above is inside a try block: when
\* one fails (thrown), its vk::SystemError leaves the function before any
\* member is assigned
PickPhysicalDevice ==
    /\ AtStep("pickPhysicalDevice")
    /\ \E thrown \in {NoError} \cup PickThrowingCalls(devices, info.deviceExtensions) :
         IF thrown # NoError
         THEN StepThrows(thrown) /\ UNCHANGED phys
         ELSE IF Len(devices) = 0
         THEN /\ StepThrows("failed to find GPUs with Vulkan support!")
              /\ UNCHANGED phys
         ELSE LET r == PickFrom(devices, 1, info.deviceExtensions) IN
              IF r.ok
              THEN /\ m_physicalDevice' = r.dev
                   /\ m_graphicsQueueIdx' = r.graphicsIdx
                   /\ m_presentQueueIdx' = r.presentIdx
                   /\ m_sampleCount' = SelectSampleCount(devices[r.dev].color,
                                                         devices[r.dev].depth,
                                                         m_sampleCount)
                   /\ StepReturns
              ELSE IF m_physicalDevice = NullHandle
              THEN StepThrows("failed to find a suitable GPU!") /\ UNCHANGED phys
              ELSE StepReturns /\ UNCHANGED phys
    /\ UNCHANGED <<last, env, m_inputs, gui, inst, dev, m_swapchain, cmd, depthv, rp,
                   m_framebuffers, sync, sz, heap>>

\* m_physicalDevice.getMemoryProperties().memoryTypes
MemoryTypes == devices[m_physicalDevice].memTypes

\* queue family indices the device accepts in a VkDeviceQueueCreateInfo
ValidFamilyIdx(idx) ==
    /\ m_physicalDevice # NullHandle
    /\ idx # UnsetIdx
    /\ UIntLess(idx, ToUInt(Len(devices[m_physicalDevice].fams)))

\* one entry per index, the same family twice when the indices coincide
UniqueQueueFamilies_NoDedup(g, p) == <<g, p>>

\* std::set<uint32_t>{graphics, present} iterated in ascending order
UniqueQueueFamilies(g, p) ==
    IF g = p THEN <<g>> ELSE IF UIntLess(g, p) THEN <<g, p>> ELSE <<p, g>>

\* createLogicalDeviceAndQueues.  A _DEBUG build ends it by naming the two
\* queues with setDebugUtilsObjectNameEXT, outside any try block: when a
\* naming call throws (named = FALSE) the device and both queues are set
CreateLogicalDeviceAndQueues ==
    /\ AtStep("createLogicalDeviceAndQueues")
    /\ LET infos == UniqueQueueFamilies(m_graphicsQueueIdx, m_presentQueueIdx) IN
       \E created \in BOOLEAN, named \in BOOLEAN :
         IF ~(ValidFamilyIdx(m_graphicsQueueIdx) /\ ValidFamilyIdx(m_presentQueueIdx))
         THEN \* vkCreateDevice with an index that names no family: the call
              \* is invalid; the driver reports an error or faults
              /\ \/ StepThrows("failed to create logical device!")
                 \/ Crashes
              /\ UNCHANGED <<dev, heap>>
         ELSE IF ~created
         THEN StepThrows("failed to create logical device!") /\ UNCHANGED <<dev, heap>>
         ELSE /\ m_device' = nextH
              /\ live' = live \cup {nextH}
              /\ nextH' = nextH + 1
              /\ queueCreateInfos' = infos
              /\ m_graphicsQueue' = <<m_graphicsQueueIdx, 0>>
              /\ m_presentQueue' = <<m_presentQueueIdx, 0>>
              /\ IF named THEN StepReturns ELSE StepThrows("vk::Device::setDebugUtilsObjectNameEXT")
    /\ UNCHANGED <<last, env, m_inputs, gui, inst, phys, m_swapchain, cmd, depthv, rp,
                   m_framebuffers, sync, sz>>

\* SwapChain::update(width, height): a new generation of n images of the
\* requested extent; no image is acquired
SwapchainUpdate(swc, n, size) ==
    [live |-> TRUE, gen |-> swc.gen + 1, imageCount |-> n, extent |-> size,
     active |-> 0, acq |-> 0]

CreateSwapChain ==
    /\ AtStep("createSwapChain")
    /\ \E n \in 1..MaxImages : m_swapchain' = SwapchainUpdate(m_swapchain, n, m_size)
    /\ StepReturns
    /\ UNCHANGED <<last, env, m_inputs, gui, inst, phys, dev, cmd, depthv, rp,
                   m_framebuffers, sync, sz, heap>>

CreateCommandPool ==
    /\ AtStep("createCommandPool")
    /\ \E created \in BOOLEAN :
         IF ~created
         THEN /\ StepThrows("failed to create command pool!")
              /\ UNCHANGED <<m_commandPool, heap>>
         ELSE /\ m_commandPool' = nextH
              /\ live' = live \cup {nextH}
              /\ nextH' = nextH + 1
              /\ StepReturns
    /\ UNCHANGED <<last, env, m_inputs, gui, inst, phys, dev, m_swapchain,
                   m_commandBuffers, oneTimeBuffers, depthv, rp, m_framebuffers,
                   sync, sz>>

\* createCommandBuffer.  A _DEBUG build names every allocated buffer with
\* setDebugUtilsObjectNameEXT, outside the try block: when a naming call
\* throws (named = FALSE) the buffers stay allocated
CreateCommandBuffer ==
    /\ AtStep("createCommandBuffer")
    /\ LET n == m_swapchain.imageCount IN
       \E created \in BOOLEAN, named \in BOOLEAN :
         IF ~created
         THEN /\ StepThrows("failed to allocate command buffers!")
              /\ m_commandBuffers' = [i \in 1..n |-> NullHandle]
              /\ UNCHANGED heap
         ELSE /\ m_commandBuffers' = [i \in 1..n |-> nextH + i - 1]
              /\ live' = live \cup { nextH + i - 1 : i \in 1..n }
              /\ nextH' = nextH + n
              /\ IF named THEN StepReturns ELSE StepThrows("vk::Device::setDebugUtilsObjectNameEXT")
    /\ UNCHANGED <<last, env, m_inputs, gui, inst, phys, dev, m_swapchain,
                   m_commandPool, oneTimeBuffers, depthv, rp, m_framebuffers,
                   sync, sz>>

(***************************************************************************)
(* createDepthBuffer as a function of the members it touches.  fp is the   *)
(* call that throws ("none": no call does).                                *)
(***************************************************************************)
\* the device call of createDepthBuffer that throws ("none": none does).
\* createImage, allocateMemory and createImageView are inside try blocks that
\* rethrow a std::runtime_error; bindImageMemory and the calls of the
\* one-time layout transition (allocateCommandBuffers, begin, end, submit,
\* waitIdle) are not, their vk::SystemError leaves the call as it is.  begin,
\* end, submit and waitIdle stand between allocateCommandBuffers and
\* freeCommandBuffers: when one of them throws, the one-time command buffer
\* stays allocated from m_commandPool (oneTime, the number of buffers left)
DepthFailPoints ==
    {"none", "image", "alloc", "bind", "cmdAlloc", "begin", "end", "submit",
     "waitIdle", "view"}

\* memReqs.memoryTypeBits as getImageMemoryRequirements may report it
MemoryTypeBits == 0..(2 ^ MaxMemTypes - 1)

\* the test of the selection loop for memory type i
MemoryTypeSuitable_AnyProperty(bits, types, i) == HasBit(bits, 2 ^ i)

MemoryTypeSuitable(bits, types, i) ==
    HasBit(bits, 2 ^ i) /\ "DeviceLocal" \in types[i + 1]

\* the selection loop from index i on: the first suitable index, or the
\* initial value (uint32_t)-1 when the loop ends without one
RECURSIVE FindMemoryTypeFrom(_, _, _)
FindMemoryTypeFrom(bits, types, i) ==
    IF i >= Len(types) THEN NoIdx
    ELSE IF MemoryTypeSuitable(bits, types, i) THEN ToUInt(i)
    ELSE FindMemoryTypeFrom(bits, types, i + 1)

\* one device call as the call log records it: the function, the handle it
\* creates or destroys, and a second handle or value the call deals with
\* (createImage: the memory type bits the image turns out to require;
\* allocateMemory: the memory type index)
Call(op, h, aux) == [op |-> op, h |-> h, aux |-> aux]

\* what() of the exception that leaves createDepthBuffer; for a
\* vk::SystemError, the name of the call it starts with
DepthErr(fp) ==
    CASE fp = "image" -> "failed to create depth images!"
      [] fp = "memtype" -> "failed to find suitable memory type!"
      [] fp = "alloc" -> "failed to allocate depth image memory!"
      [] fp = "bind" -> "vk::Device::bindImageMemory"
      [] fp = "cmdAlloc" -> "vk::Device::allocateCommandBuffers"
      [] fp = "begin" -> "vk::CommandBuffer::begin"
      [] fp = "end" -> "vk::CommandBuffer::end"
      [] fp = "submit" -> "vk::Queue::submit"
      [] fp = "waitIdle" -> "vk::Queue::waitIdle"
      [] fp = "view" -> "failed to create depth image view!"
      [] OTHER -> NoError

\* a createDepthBuffer without the three destroy calls at its top
CreateDepthBufferOp_NoDestroy(live0, next0, view0, image0, memory0, size, fp, bits, types) ==
    LET img == next0
        mem == next0 + 1
        view == next0 + 2
        mt == FindMemoryTypeFrom(bits, types, 0)
        mkImg == Call("createImage", img, bits)
        mkMem == Call("allocateMemory", mem, mt)
        mkView == Call("createImageView", view, img)
    IN  IF fp = "image"
        THEN [live |-> live0, next |-> next0, view |-> view0, image |-> image0,
              memory |-> memory0, extent |-> size, err |-> DepthErr(fp),
              calls |-> <<>>, oneTime |-> 0]
        ELSE IF mt = NoIdx \/ fp = "alloc"
        THEN [live |-> live0 \cup {img}, next |-> next0 + 1, view |-> view0,
              image |-> img, memory |-> memory0, extent |-> size,
              err |-> DepthErr(IF mt = NoIdx THEN "memtype" ELSE fp),
              calls |-> <<mkImg>>, oneTime |-> 0]
        ELSE IF fp # "none"
        THEN [live |-> live0 \cup {img, mem}, next |-> next0 + 2, view |-> view0,
              image |-> img, memory |-> mem, extent |-> size, err |-> DepthErr(fp),
              calls |-> <<mkImg, mkMem>>,
              oneTime |-> IF fp \in {"begin", "end", "submit", "waitIdle"}
                          THEN 1 ELSE 0]
        ELSE [live |-> live0 \cup {img, mem, view}, next |-> next0 + 3,
              view |-> view, image |-> img, memory |-> mem, extent |-> size,
              err |-> NoError, calls |-> <<mkImg, mkMem, mkView>>,
              oneTime |-> 0]

CreateDepthBufferOp(live0, next0, view0, image0, memory0, size, fp, bits, types) ==
    LET \* destroyImageView, destroyImage, freeMemory on the old members
        l0 == live0 \ {view0, image0, memory0}
        pre == << Call("destroyImageView", view0, NullHandle),
                  Call("destroyImage", image0, NullHandle),
                  Call("freeMemory", memory0, NullHandle) >>
        img == next0
        mem == next0 + 1
        view == next0 + 2
        mt == FindMemoryTypeFrom(bits, types, 0)
        mkImg == Call("createImage", img, bits)
        mkMem == Call("allocateMemory", mem, mt)
        mkView == Call("createImageView", view, img)
    IN  IF fp = "image"
        THEN [live |-> l0, next |-> next0, view |-> view0, image |-> image0,
              memory |-> memory0, extent |-> size, err |-> DepthErr(fp),
              calls |-> pre, oneTime |-> 0]
        ELSE IF mt = NoIdx \/ fp = "alloc"
        THEN [live |-> l0 \cup {img}, next |-> next0 + 1, view |-> view0,
              image |-> img, memory |-> memory0, extent |-> size,
              err |-> DepthErr(IF mt = NoIdx THEN "memtype" ELSE fp),
              calls |-> pre \o <<mkImg>>, oneTime |-> 0]
        ELSE IF fp # "none"
        THEN [live |-> l0 \cup {img, mem}, next |-> next0 + 2, view |-> view0,
              image |-> img, memory |-> mem, extent |-> size, err |-> DepthErr(fp),
              calls |-> pre \o <<mkImg, mkMem>>,
              oneTime |-> IF fp \in {"begin", "end", "submit", "waitIdle"}
                          THEN 1 ELSE 0]
        ELSE [live |-> l0 \cup {img, mem, view}, next |-> next0 + 3, view |-> view,
              image |-> img, memory |-> mem, extent |-> size, err |-> NoError,
              calls |-> pre \o <<mkImg, mkMem, mkView>>, oneTime |-> 0]

CreateDepthBuffer ==
    /\ AtStep("createDepthBuffer")
    /\ \E fp \in DepthFailPoints, bits \in MemoryTypeBits :
         LET r == CreateDepthBufferOp(live, nextH, m_depthView, m_depthImage,
                                      m_depthMemory, m_size, fp, bits,
                                      MemoryTypes)
         IN  /\ live' = r.live /\ nextH' = r.next
             /\ m_depthView' = r.view /\ m_depthImage' = r.image
             /\ m_depthMemory' = r.memory
             /\ depthExtent' = IF r.image # m_depthImage THEN r.extent
                               ELSE depthExtent
             /\ oneTimeBuffers' = oneTimeBuffers + r.oneTime
             /\ IF r.err = NoError THEN StepReturns ELSE StepThrows(r.err)
    /\ UNCHANGED <<last, env, m_inputs, gui, inst, phys, dev, m_swapchain,
                   m_commandPool, m_commandBuffers, rp, m_framebuffers, sync, sz>>

\* createRenderPass.  A _DEBUG build names the new render pass with
\* setDebugUtilsObjectNameEXT, outside the try block: when that call throws
\* (named = FALSE) m_renderPass already holds the new, live render pass
CreateRenderPass ==
    /\ AtStep("createRenderPass")
    /\ \E created \in BOOLEAN, named \in BOOLEAN :
         LET l0 == live \ {m_renderPass} IN
         IF ~created
         THEN /\ StepThrows("failed to create render pass!")
              /\ live' = l0
              /\ UNCHANGED <<m_renderPass, nextH>>
         ELSE /\ m_renderPass' = nextH
              /\ live' = l0 \cup {nextH}
              /\ nextH' = nextH + 1
              /\ IF named THEN StepReturns ELSE StepThrows("vk::Device::setDebugUtilsObjectNameEXT")
    /\ UNCHANGED <<last, env, m_inputs, gui, inst, phys, dev, m_swapchain, cmd, depthv, m_pipelineCache,
                   m_framebuffers, sync, sz>>

CreatePipelineCache ==
    /\ AtStep("createPipelineCache")
    /\ \E created \in BOOLEAN :
         IF ~created
         THEN /\ StepThrows("failed to create pipeline cache!")
              /\ UNCHANGED <<m_pipelineCache, heap>>
         ELSE /\ m_pipelineCache' = nextH
              /\ live' = live \cup {nextH}
              /\ nextH' = nextH + 1
              /\ StepReturns
    /\ UNCHANGED <<last, env, m_inputs, gui, inst, phys, dev, m_swapchain, cmd, depthv, m_renderPass,
                   m_framebuffers, sync, sz>>

(***************************************************************************)
(* createFrameBuffers as a function of the members it touches.  failAt is  *)
(* the image index whose createFramebuffer throws (n: none does).  A       *)
(* _DEBUG build then names every framebuffer with                          *)
(* setDebugUtilsObjectNameEXT, outside the try block: when a naming call   *)
(* throws (named = FALSE) every framebuffer has been created.              *)
(***************************************************************************)
NullFramebuffer ==
    [h |-> NullHandle, color |-> <<0, 0>>, depth |-> NullHandle,
     pass |-> NullHandle, extent |-> <<0, 0>>]

\* a createFrameBuffers that keeps the framebuffers it already has and only
\* creates the missing ones
CreateFrameBuffersOp_KeepsOld(live0, next0, fbs0, swc, depthView, pass, size, failAt, named) ==
    LET n == swc.imageCount
        resized == [i \in 1..n |-> IF i <= Len(fbs0) THEN fbs0[i] ELSE NullFramebuffer]
        k == Min(failAt, n)
        made(i) == IF i <= Len(fbs0) THEN fbs0[i]
                   ELSE [h |-> next0 + i - 1, color |-> <<swc.gen, i - 1>>,
                         depth |-> depthView, pass |-> pass, extent |-> size]
    IN  [live |-> live0 \cup { made(i).h : i \in 1..k },
         next |-> next0 + k,
         fbs |-> [i \in 1..n |-> IF i <= k THEN made(i) ELSE resized[i]],
         err |-> IF k < n THEN "failed to create framebuffer!"
                 ELSE IF ~named THEN "vk::Device::setDebugUtilsObjectNameEXT"
                 ELSE NoError,
         calls |-> [i \in 1..k |->
                       Call("createFramebuffer", made(i).h, depthView)]]

CreateFrameBuffersOp(live0, next0, fbs0, swc, depthView, pass, size, failAt, named) ==
    LET n == swc.imageCount
        \* destroyFramebuffer on every element, then vector::resize(n)
        l0 == live0 \ { fbs0[i].h : i \in 1..Len(fbs0) }
        resized == [i \in 1..n |-> IF i <= Len(fbs0) THEN fbs0[i] ELSE NullFramebuffer]
        k == Min(failAt, n)
        made(i) == [h |-> next0 + i - 1, color |-> <<swc.gen, i - 1>>,
                    depth |-> depthView, pass |-> pass, extent |-> size]
    IN  [live |-> l0 \cup { next0 + i - 1 : i \in 1..k },
         next |-> next0 + k,
         fbs |-> [i \in 1..n |-> IF i <= k THEN made(i) ELSE resized[i]],
         err |-> IF k < n THEN "failed to create framebuffer!"
                 ELSE IF ~named THEN "vk::Device::setDebugUtilsObjectNameEXT"
                 ELSE NoError,
         calls |-> [i \in 1..Len(fbs0) |->
                        Call("destroyFramebuffer", fbs0[i].h, NullHandle)]
                   \o [i \in 1..k |->
                          Call("createFramebuffer", next0 + i - 1, depthView)]]

CreateFrameBuffers ==
    /\ AtStep("createFrameBuffers")
    /\ \E failAt \in 0..m_swapchain.imageCount, named \in BOOLEAN :
         LET r == CreateFrameBuffersOp(live, nextH, m_framebuffers, m_swapchain,
                                       m_depthView, m_renderPass, m_size, failAt,
                                       named)
         IN  /\ live' = r.live /\ nextH' = r.next
             /\ m_framebuffers' = r.fbs
             /\ IF r.err = NoError THEN StepReturns ELSE StepThrows(r.err)
    /\ UNCHANGED <<last, env, m_inputs, gui, inst, phys, dev, m_swapchain, cmd, depthv, rp, sync, sz>>

(***************************************************************************)
(* createSyncObjects: one fence per swapchain image, created signaled.     *)
(***************************************************************************)
\* fences created without vk::FenceCreateFlagBits::eSignaled
CreateSyncObjectsOp_Unsignaled(next0, fences0, n, failAt) ==
    LET resized == [i \in 1..n |-> IF i <= Len(fences0) THEN fences0[i] ELSE NullHandle]
        k == Min(failAt, n)
        created == { next0 + i - 1 : i \in 1..k }
    IN  [fences |-> [i \in 1..n |-> IF i <= k THEN next0 + i - 1 ELSE resized[i]],
         created |-> created,
         signaled |-> {},
         next |-> next0 + k,
         err |-> IF k < n
                 THEN "failed to create synchronization objects for a frame!"
                 ELSE NoError]

CreateSyncObjectsOp(next0, fences0, n, failAt) ==
    LET resized == [i \in 1..n |-> IF i <= Len(fences0) THEN fences0[i] ELSE NullHandle]
        k == Min(failAt, n)
        created == { next0 + i - 1 : i \in 1..k }
    IN  [fences |-> [i \in 1..n |-> IF i <= k THEN next0 + i - 1 ELSE resized[i]],
         created |-> created,
         signaled |-> created,
         next |-> next0 + k,
         err |-> IF k < n
                 THEN "failed to create synchronization objects for a frame!"
                 ELSE NoError]

CreateSyncObjects ==
    /\ AtStep("createSyncObjects")
    /\ \E failAt \in 0..m_swapchain.imageCount :
         LET r == CreateSyncObjectsOp(nextH, m_fences, m_swapchain.imageCount, failAt)
         IN  /\ m_fences' = r.fences
             /\ live' = live \cup r.created
             /\ signaled' = signaled \cup r.signaled
             /\ nextH' = r.next
             /\ IF r.err = NoError THEN StepReturns ELSE StepThrows(r.err)
    /\ UNCHANGED <<last, env, m_inputs, gui, inst, phys, dev, m_swapchain, cmd, depthv, rp,
                   m_framebuffers, pending, sz>>

(***************************************************************************)
(* The frame loop.  The caller alternates prepareFrame and submitFrame;    *)
(* blocking waits are steps that are enabled once the GPU has got there.   *)
(***************************************************************************)
\* a call throws after bring-up: the exception leaves the backend
Throws(msg) ==
    /\ pc' = "failed"
    /\ err' = msg
    /\ UNCHANGED <<ip, done, resizeRet, resizes>>

\* a test that lets a resize through unless both dimensions are zero
ZeroSize_BothZero(size) == size[1] = 0 /\ size[2] = 0

\* width == 0 || height == 0
ZeroSize(size) == size[1] = 0 \/ size[2] = 0

\* SwapChain::acquire reports success or suboptimal with image idx acquired
SwapchainAcquire(swc, idx) == [swc EXCEPT !.active = idx, !.acq = swc.gen]

\* SwapChain::present hands the active image back
SwapchainPresent(swc) == [swc EXCEPT !.acq = 0]

\* a prepareFrame that goes on to the fence wait whatever acquire reported
AcquireOutcome_NeverThrows(result) ==
    IF result \in {"eErrorOutOfDateKHR", "eSuboptimalKHR"} THEN "resize"
    ELSE "wait"

\* what prepareFrame does with the result of the acquire
AcquireOutcome(result) ==
    IF result \in {"eErrorOutOfDateKHR", "eSuboptimalKHR"} THEN "resize"
    ELSE IF result # "eSuccess" THEN "throw"
    ELSE "wait"

\* prepareFrame up to the fence wait: the acquire, and the call of
\* onWindowResize(m_size) when the acquire reports out-of-date or suboptimal
PrepareFrame ==
    /\ pc = "ready"
    /\ \E result \in {"eSuccess", "eSuboptimalKHR", "eErrorOutOfDateKHR",
                       "eErrorDeviceLost", "eTimeout"},
          idx \in 0..(m_swapchain.imageCount - 1) :
         LET acquired == result \in {"eSuccess", "eSuboptimalKHR"}
             swc == IF acquired THEN SwapchainAcquire(m_swapchain, idx)
                    ELSE m_swapchain
         IN  IF AcquireOutcome(result) = "resize"
             THEN /\ m_swapchain' = swc
                  /\ IF ZeroSize(m_size)
                     THEN /\ pc' = "prepWait"
                          /\ UNCHANGED <<resizeRet, camSize, imguiDisplaySize>>
                     ELSE /\ resizes < MaxResizes
                          /\ pc' = "resizeWait"
                          /\ resizeRet' = "prepWait"
                          /\ imguiDisplaySize' = IF imguiCtx THEN m_size
                                                 ELSE imguiDisplaySize
                          /\ camSize' = m_size
                  /\ last' = [op |-> "onWindowResize", arg |-> m_size,
                              calls |-> <<>>]
                  /\ UNCHANGED <<ip, done, resizes, err>>
             ELSE IF AcquireOutcome(result) = "throw"
             THEN /\ Throws("failed to acquire image from swapchain!")
                  /\ last' = [op |-> "m_swapchain.acquire", arg |-> result,
                              calls |-> <<>>]
                  /\ UNCHANGED <<m_swapchain, camSize, imguiDisplaySize>>
             ELSE /\ m_swapchain' = swc
                  /\ pc' = "prepWait"
                  /\ last' = [op |-> "m_swapchain.acquire", arg |-> result,
                              calls |-> <<>>]
                  /\ UNCHANGED <<ip, done, resizeRet, resizes, err, camSize,
                                 imguiDisplaySize>>
    /\ UNCHANGED <<env, m_inputs, m_imguiDescPool, imguiCtx, imguiContexts, inst, phys, dev, cmd,
                   depthv, rp, m_framebuffers, sync, m_size, notified, heap>>

ActiveInRange == m_swapchain.active < Len(m_fences)
ActiveFence == m_fences[m_swapchain.active + 1]
ActiveCommandBuffer == m_commandBuffers[m_swapchain.active + 1]

\* waitForFences(m_fences[imageIndex]) returns eSuccess: prepareFrame returns
FenceWaitReturns ==
    /\ pc = "prepWait"
    /\ ActiveInRange
    /\ ActiveFence \in signaled
    /\ pc' = "frame"
    /\ UNCHANGED <<ip, done, resizeRet, resizes, err>>
    /\ UNCHANGED <<last, env, m_inputs, gui, inst, phys, dev, m_swapchain, cmd, depthv, rp,
                   m_framebuffers, sync, sz, heap>>

\* waitForFences reports a result other than eSuccess and eTimeout (the
\* device is lost): the call is outside any try block, its vk::SystemError
\* leaves prepareFrame
FenceWaitThrows ==
    /\ pc = "prepWait"
    /\ Throws("vk::Device::waitForFences")
    /\ UNCHANGED <<last, env, m_inputs, gui, inst, phys, dev, m_swapchain, cmd, depthv, rp,
                   m_framebuffers, sync, sz, heap>>

\* waitForFences returns eTimeout: the while loop goes round again
FenceWaitTimesOut ==
    /\ pc = "prepWait"
    /\ ActiveInRange
    /\ ActiveFence \notin signaled
    /\ UNCHANGED vars

\* m_fences[imageIndex] with imageIndex past the end of the vector: the
\* value read is indeterminate and so is what waitForFences makes of it
FenceWaitOutOfRange ==
    /\ pc = "prepWait"
    /\ ~ActiveInRange
    /\ \/ pc' = "frame" /\ UNCHANGED <<ip, done, resizeRet, resizes, err>>
       \/ Crashes
    /\ UNCHANGED <<last, env, m_inputs, gui, inst, phys, dev, m_swapchain, cmd, depthv, rp,
                   m_framebuffers, sync, sz, heap>>

\* what the submit of submitFrame carries besides the command buffer: the
\* fence passed with the vk::SubmitInfo, one wait semaphore (semaphoreRead,
\* the swapchain's active read semaphore: the image has been acquired) with
\* its wait stage, and one signal semaphore (semaphoreWrite, the swapchain's
\* active written semaphore: rendering has finished)
SubmitInfo(swc, fence) ==
    [fence |-> fence,
     wait |-> [role |-> "imageAcquired", gen |-> swc.gen],
     stage |-> "eColorAttachmentOutput",
     signal |-> [role |-> "renderingFinished", gen |-> swc.gen]]

\* submitFrame on the fence and command buffer it reads for the active
\* image: resetFences, queue submit (waiting on the read semaphore,
\* signalling the written semaphore and the fence), present.  fp is the call
\* that throws ("none": none does): resetFences ("reset"), outside any try
\* block, leaves the fence as it is; the queue submit ("submit"), inside a
\* try block that rethrows a std::runtime_error, leaves the function before
\* present
SubmitFrameOp(signaled0, pending0, swc, fence, cb, fp) ==
    LET reset == Call("resetFences", fence, NullHandle)
        submit == Call("m_graphicsQueue.submit", cb, SubmitInfo(swc, fence))
        present == Call("m_swapchain.present", NullHandle, swc.active)
    IN  IF fp = "reset"
        THEN [signaled |-> signaled0, pending |-> pending0, swc |-> swc,
              calls |-> <<>>, err |-> "vk::Device::resetFences"]
        ELSE IF fp = "submit"
        THEN [signaled |-> signaled0 \ {fence}, pending |-> pending0,
              swc |-> swc, calls |-> <<reset>>,
              err |-> "failed to submit draw command buffer!"]
        ELSE [signaled |-> signaled0 \ {fence},
              pending |-> pending0 \cup {[cb |-> cb, fence |-> fence]},
              swc |-> SwapchainPresent(swc), calls |-> <<reset, submit, present>>,
              err |-> NoError]

\* submitFrame with the active image index inside m_fences
SubmitFrame ==
    /\ pc = "frame"
    /\ ActiveInRange
    /\ \E fp \in {"none", "reset", "submit"} :
         LET r == SubmitFrameOp(signaled, pending, m_swapchain, ActiveFence,
                                ActiveCommandBuffer, fp)
         IN  /\ signaled' = r.signaled
             /\ pending' = r.pending
             /\ m_swapchain' = r.swc
             /\ last' = [op |-> "submitFrame", arg |-> <<m_swapchain.active>>,
                         calls |-> r.calls]
             /\ IF r.err # NoError
                THEN Throws(r.err)
                ELSE /\ pc' = "ready"
                     /\ UNCHANGED <<ip, done, resizeRet, resizes, err>>
    /\ UNCHANGED <<env, m_inputs, gui, inst, phys, dev, cmd, depthv, rp, m_framebuffers,
                   m_fences, sz, heap>>

\* submitFrame with imageIndex past the end of m_fences and m_commandBuffers:
\* the handles read are indeterminate; they may equal live handles of another
\* slot j, or be rejected by the driver
SubmitFrameOutOfRange ==
    /\ pc = "frame"
    /\ ~ActiveInRange
    /\ \/ /\ Crashes
          /\ last' = [op |-> "submitFrame", arg |-> <<m_swapchain.active>>,
                      calls |-> <<>>]
          /\ UNCHANGED <<signaled, pending, m_swapchain>>
       \/ \E j \in 1..Len(m_fences) :
            LET r == SubmitFrameOp(signaled, pending, m_swapchain, m_fences[j],
                                   m_commandBuffers[j], "none")
            IN  /\ signaled' = r.signaled
                /\ pending' = r.pending
                /\ m_swapchain' = r.swc
                /\ last' = [op |-> "submitFrame", arg |-> <<m_swapchain.active>>,
                            calls |-> r.calls]
                /\ pc' = "ready"
                /\ UNCHANGED <<ip, done, resizeRet, resizes, err>>
    /\ UNCHANGED <<env, m_inputs, gui, inst, phys, dev, cmd, depthv, rp, m_framebuffers,
                   m_fences, sz, heap>>

\* the GPU finishes a submission and signals its fence
GpuComplete ==
    /\ \E s \in pending :
         /\ pending' = pending \ {s}
         /\ signaled' = signaled \cup {s.fence}
    /\ UNCHANGED <<ctl, last, env, m_inputs, gui, inst, phys, dev, m_swapchain, cmd, depthv, rp,
                   m_framebuffers, m_fences, sz, heap>>

(***************************************************************************)
(* onWindowResize, called by the resize callback between two calls of the  *)
(* frame loop, or by prepareFrame.                                         *)
(***************************************************************************)
\* the part before the idle waits
\* an onWindowResize that stores the size and leaves the camera alone
OnWindowResize_CameraNotSet ==
    /\ pc \in {"ready", "frame"}
    /\ \E w \in Dims, h \in Dims :
         /\ last' = [op |-> "onWindowResize", arg |-> <<w, h>>, calls |-> <<>>]
         /\ IF ZeroSize(<<w, h>>)
            THEN UNCHANGED <<ctl, m_size, camSize, imguiDisplaySize>>
            ELSE /\ resizes < MaxResizes
                 /\ m_size' = <<w, h>>
                 /\ imguiDisplaySize' = IF imguiCtx THEN <<w, h>>
                                        ELSE imguiDisplaySize
                 /\ UNCHANGED camSize
                 /\ pc' = "resizeWait"
                 /\ resizeRet' = pc
                 /\ UNCHANGED <<ip, done, resizes, err>>
    /\ UNCHANGED <<env, m_inputs, m_imguiDescPool, imguiCtx, imguiContexts, inst, phys, dev,
                   m_swapchain, cmd, depthv, rp, m_framebuffers, sync, notified,
                   heap>>

OnWindowResize ==
    /\ pc \in {"ready", "frame"}
    /\ \E w \in Dims, h \in Dims :
         /\ last' = [op |-> "onWindowResize", arg |-> <<w, h>>, calls |-> <<>>]
         /\ IF ZeroSize(<<w, h>>)
            THEN UNCHANGED <<ctl, m_size, camSize, imguiDisplaySize>>
            ELSE /\ resizes < MaxResizes
                 /\ m_size' = <<w, h>>
                 /\ imguiDisplaySize' = IF imguiCtx THEN <<w, h>>
                                        ELSE imguiDisplaySize
                 /\ camSize' = <<w, h>>
                 /\ pc' = "resizeWait"
                 /\ resizeRet' = pc
                 /\ UNCHANGED <<ip, done, resizes, err>>
    /\ UNCHANGED <<env, m_inputs, m_imguiDescPool, imguiCtx, imguiContexts, inst, phys, dev,
                   m_swapchain, cmd, depthv, rp, m_framebuffers, sync, notified,
                   heap>>

\* onWindowResize from the idle waits on, as a function of the members it
\* touches: m_swapchain.update, onResize, createDepthBuffer then
\* createFrameBuffers; n is the image count of the updated swapchain
RebuildOp_FramebuffersFirst(live0, next0, swc0, view0, image0, memory0, fbs0, pass, size, n, fp, bits, types, failAt, named) ==
    LET swc == SwapchainUpdate(swc0, n, size)
        f == CreateFrameBuffersOp(live0, next0, fbs0, swc, view0, pass, size,
                                  failAt, named)
        d == CreateDepthBufferOp(f.live, f.next, view0, image0, memory0, size, fp,
                                 bits, types)
        head == << Call("m_device.waitIdle", NullHandle, NullHandle),
                   Call("m_graphicsQueue.waitIdle", NullHandle, NullHandle),
                   Call("m_swapchain.update", NullHandle, swc.gen),
                   Call("onResize", NullHandle, NullHandle) >>
    IN  IF f.err # NoError
        THEN [swc |-> swc, notified |-> size, live |-> f.live, next |-> f.next,
              view |-> view0, image |-> image0, memory |-> memory0,
              extent |-> size, fbs |-> f.fbs, err |-> f.err,
              calls |-> head \o f.calls, oneTime |-> 0]
        ELSE [swc |-> swc, notified |-> size, live |-> d.live, next |-> d.next,
              view |-> d.view, image |-> d.image, memory |-> d.memory,
              extent |-> d.extent, fbs |-> f.fbs, err |-> d.err,
              calls |-> head \o f.calls \o d.calls, oneTime |-> d.oneTime]

\* an onWindowResize that destroys the render pass along with the depth
\* buffer before it rebuilds
RebuildOp_DropsRenderPass(live0, next0, swc0, view0, image0, memory0, fbs0, pass, size, n, fp, bits, types, failAt, named) ==
    LET swc == SwapchainUpdate(swc0, n, size)
        d == CreateDepthBufferOp(live0 \ {pass}, next0, view0, image0, memory0,
                                 size, fp, bits, types)
        f == CreateFrameBuffersOp(d.live, d.next, fbs0, swc, d.view, pass, size,
                                  failAt, named)
        head == << Call("m_device.waitIdle", NullHandle, NullHandle),
                   Call("m_graphicsQueue.waitIdle", NullHandle, NullHandle),
                   Call("m_swapchain.update", NullHandle, swc.gen),
                   Call("onResize", NullHandle, NullHandle) >>
    IN  IF d.err # NoError
        THEN [swc |-> swc, notified |-> size, live |-> d.live, next |-> d.next,
              view |-> d.view, image |-> d.image, memory |-> d.memory,
              extent |-> d.extent, fbs |-> fbs0, err |-> d.err,
              calls |-> head \o d.calls, oneTime |-> d.oneTime]
        ELSE [swc |-> swc, notified |-> size, live |-> f.live, next |-> f.next,
              view |-> d.view, image |-> d.image, memory |-> d.memory,
              extent |-> d.extent, fbs |-> f.fbs, err |-> f.err,
              calls |-> head \o d.calls \o f.calls, oneTime |-> d.oneTime]

RebuildOp(live0, next0, swc0, view0, image0, memory0, fbs0, pass, size, n, fp, bits, types, failAt, named) ==
    LET swc == SwapchainUpdate(swc0, n, size)
        d == CreateDepthBufferOp(live0, next0, view0, image0, memory0, size, fp,
                                 bits, types)
        f == CreateFrameBuffersOp(d.live, d.next, fbs0, swc, d.view, pass, size,
                                  failAt, named)
        head == << Call("m_device.waitIdle", NullHandle, NullHandle),
                   Call("m_graphicsQueue.waitIdle", NullHandle, NullHandle),
                   Call("m_swapchain.update", NullHandle, swc.gen),
                   Call("onResize", NullHandle, NullHandle) >>
    IN  IF d.err # NoError
        THEN [swc |-> swc, notified |-> size, live |-> d.live, next |-> d.next,
              view |-> d.view, image |-> d.image, memory |-> d.memory,
              extent |-> d.extent, fbs |-> fbs0, err |-> d.err,
              calls |-> head \o d.calls, oneTime |-> d.oneTime]
        ELSE [swc |-> swc, notified |-> size, live |-> f.live, next |-> f.next,
              view |-> d.view, image |-> d.image, memory |-> d.memory,
              extent |-> d.extent, fbs |-> f.fbs, err |-> f.err,
              calls |-> head \o d.calls \o f.calls, oneTime |-> d.oneTime]

\* m_device.waitIdle() and m_graphicsQueue.waitIdle() return once the GPU
\* has nothing pending
IdleWaitsReturn == pending = {}

\* onWindowResize from the idle waits on.  m_device.waitIdle() and
\* m_graphicsQueue.waitIdle() are outside any try block: when one fails
\* (failed, the device is lost) its vk::SystemError leaves onWindowResize
\* with the size stored and nothing rebuilt; the queue wait is reached once
\* the device wait has returned.  When both have returned:
\* m_swapchain.update, onResize, createDepthBuffer, createFrameBuffers (a
\* createDepthBuffer that throws leaves before createFrameBuffers, whose own
\* outcomes failAt and named then play no part)
ResizeRebuild ==
    /\ pc = "resizeWait"
    /\ \/ \E failed \in {"vk::Device::waitIdle", "vk::Queue::waitIdle"} :
            /\ failed = "vk::Queue::waitIdle" => IdleWaitsReturn
            /\ Throws(failed)
            /\ last' = [op |-> "onWindowResize", arg |-> m_size,
                        calls |-> IF failed = "vk::Queue::waitIdle"
                                  THEN <<Call("m_device.waitIdle", NullHandle,
                                              NullHandle)>>
                                  ELSE <<>>]
            /\ UNCHANGED <<m_swapchain, notified, depthv, heap, m_framebuffers,
                           oneTimeBuffers>>
       \/ /\ IdleWaitsReturn
          /\ \E n \in 1..MaxImages, fp \in DepthFailPoints, bits \in MemoryTypeBits,
                failAt \in 0..MaxImages, named \in BOOLEAN :
               LET r == RebuildOp(live, nextH, m_swapchain, m_depthView,
                                  m_depthImage, m_depthMemory, m_framebuffers,
                                  m_renderPass, m_size, n, fp, bits, MemoryTypes,
                                  failAt, named)
               IN  /\ failAt <= n
                   /\ (fp # "none" => (failAt = n /\ named))
                   /\ m_swapchain' = r.swc
                   /\ notified' = r.notified
                   /\ resizes' = resizes + 1
                   /\ m_depthView' = r.view /\ m_depthImage' = r.image
                   /\ m_depthMemory' = r.memory
                   /\ depthExtent' = IF r.image # m_depthImage THEN r.extent
                                     ELSE depthExtent
                   /\ live' = r.live /\ nextH' = r.next
                   /\ oneTimeBuffers' = oneTimeBuffers + r.oneTime
                   /\ m_framebuffers' = r.fbs
                   /\ last' = [op |-> "onWindowResize", arg |-> m_size,
                               calls |-> r.calls]
                   /\ IF r.err # NoError
                      THEN pc' = "failed" /\ err' = r.err
                      ELSE pc' = resizeRet /\ UNCHANGED err
                   /\ UNCHANGED <<ip, done, resizeRet>>
    /\ UNCHANGED <<env, m_inputs, gui, inst, phys, dev, m_commandPool,
                   m_commandBuffers, rp, sync, m_size, camSize>>

(***************************************************************************)
(* destroy(), called once by the application after the frame loop.         *)
(***************************************************************************)
\* element i of a vector, or what the model takes an out-of-range read to
\* yield when the driver ignores it: the null handle
ElemOrNull(v, i) == IF i <= Len(v) THEN v[i] ELSE NullHandle

\* the first n iterations of the loop over m_swapchain.getImageCount()
RECURSIVE DestroyLoopCalls(_)
DestroyLoopCalls(n) ==
    IF n = 0 THEN <<>>
    ELSE DestroyLoopCalls(n - 1) \o
         << Call("destroyFramebuffer",
                 IF n <= Len(m_framebuffers) THEN m_framebuffers[n].h
                 ELSE NullHandle, NullHandle),
            Call("destroyFence", ElemOrNull(m_fences, n), NullHandle),
            Call("freeCommandBuffers", ElemOrNull(m_commandBuffers, n),
                 m_commandPool) >>

\* the calls of destroy() before the loop: the ImGui shutdown runs when
\* there is an ImGui context
DestroyHeadCalls ==
    <<Call("m_device.waitIdle", NullHandle, NullHandle)>>
    \o (IF imguiCtx
        THEN << Call("ImGui_ImplVulkan_Shutdown", NullHandle, NullHandle),
                Call("ImGui_ImplGlfw_Shutdown", NullHandle, NullHandle),
                Call("ImGui::DestroyContext", NullHandle, NullHandle),
                Call("destroyDescriptorPool", m_imguiDescPool, NullHandle) >>
        ELSE <<>>)
    \o << Call("destroyRenderPass", m_renderPass, NullHandle),
          Call("destroyImageView", m_depthView, NullHandle),
          Call("destroyImage", m_depthImage, NullHandle),
          Call("freeMemory", m_depthMemory, NullHandle),
          Call("destroyPipelineCache", m_pipelineCache, NullHandle) >>

\* the calls of destroy() after the loop
DestroyTailCalls ==
    << Call("m_swapchain.destroy", NullHandle, m_swapchain.gen),
       Call("destroyCommandPool", m_commandPool, NullHandle),
       Call("m_device.destroy", m_device, NullHandle) >>
    \o (IF m_debugMessenger # NullHandle
        THEN <<Call("destroyDebugUtilsMessengerEXT", m_debugMessenger, m_instance)>>
        ELSE <<>>)
    \o << Call("destroySurfaceKHR", m_surface, m_instance),
          Call("m_instance.destroy", m_instance, NullHandle) >>

\* the handles a sequence of calls of destroy() releases; destroying the
\* command pool frees the command buffers allocated from it
Released(calls) ==
    { calls[i].h : i \in 1..Len(calls) }
    \cup (IF \E i \in 1..Len(calls) : calls[i].op = "destroyCommandPool"
          THEN { m_commandBuffers[i] : i \in 1..Len(m_commandBuffers) }
          ELSE {})

\* the k-th element read by the loop over m_swapchain.getImageCount() is
\* past the end of its vector: the reads are m_framebuffers[i], m_fences[i]
\* and m_commandBuffers[i] of each iteration, in this order, each followed
\* by the call it is the argument of
DestroyReadOutOfRange(k) ==
    LET i == ((k - 1) \div 3) + 1
        v == (k - 1) % 3
    IN  i > Len(IF v = 0 THEN m_framebuffers
                ELSE IF v = 1 THEN m_fences ELSE m_commandBuffers)

\* destroy().  m_device.waitIdle() is outside any try block: when it fails
\* its vk::SystemError leaves destroy() with nothing destroyed.  When it has
\* returned, the destroy calls follow in the order of the source.  An index
\* past the end of a vector is an out-of-range read: the process faults at
\* that read (faultAt), after the calls made before it, or the driver ignores
\* the value read.  destroyCommandPool frees the one-time command buffers
\* still allocated from the pool
Destroy ==
    /\ pc = "ready"
    /\ \/ /\ Throws("vk::Device::waitIdle")
          /\ last' = [op |-> "destroy", arg |-> <<>>, calls |-> <<>>]
          /\ UNCHANGED <<live, imguiCtx, imguiContexts, m_swapchain, oneTimeBuffers>>
       \/ /\ IdleWaitsReturn
          /\ \E faultAt \in 0..(3 * m_swapchain.imageCount) :
               LET faults == faultAt # 0
                   loop == DestroyLoopCalls(m_swapchain.imageCount)
                   calls == IF faults
                            THEN DestroyHeadCalls \o SubSeq(loop, 1, faultAt - 1)
                            ELSE DestroyHeadCalls \o loop \o DestroyTailCalls
               IN  /\ faults => DestroyReadOutOfRange(faultAt)
                   /\ last' = [op |-> "destroy", arg |-> <<>>, calls |-> calls]
                   /\ live' = live \ Released(calls)
                   /\ oneTimeBuffers' = IF faults THEN oneTimeBuffers ELSE 0
                   /\ imguiCtx' = FALSE
                   /\ imguiContexts' = IF imguiCtx THEN imguiContexts - 1
                                        ELSE imguiContexts
                   /\ m_swapchain' = IF faults THEN m_swapchain
                                     ELSE [m_swapchain EXCEPT !.live = FALSE]
                   /\ pc' = IF faults THEN "crashed" ELSE "destroyed"
          /\ UNCHANGED <<ip, done, resizeRet, resizes, err>>
    /\ UNCHANGED <<nextH, env, m_inputs, m_imguiDescPool, imguiDisplaySize, inst,
                   phys, dev, m_commandPool, m_commandBuffers, depthv, rp,
                   m_framebuffers, sync, sz>>

\* checkVkResult, the CheckVkResultFn initGUI hands to the ImGui back end:
\* a negative VkResult ends the process with abort()
checkVkResult(result) == IF result < 0 THEN "abort" ELSE "return"

\* initGUI(window), called after bring-up (it asserts m_renderPass): the
\* descriptor pool, then ImGui::CreateContext and the ImGui back end.
\* createDescriptorPool is outside any try block, its vk::SystemError leaves
\* the call.  The back end reports the VkResult of its own device calls to
\* checkVkResult (result: VK_SUCCESS, a positive status, an error), which
\* aborts on an error.  Nothing keeps the application
\* from calling initGUI again: the new pool then replaces m_imguiDescPool
\* while the earlier pool stays alive, and ImGui::CreateContext creates one
\* more context (the current context stays the first)
InitGUI ==
    /\ pc = "ready"
    /\ imguiContexts < MaxGuiInits
    /\ \E created \in BOOLEAN, result \in {0, 1, 0 - 1} :
         IF ~created
         THEN /\ Throws("vk::Device::createDescriptorPool")
              /\ last' = [op |-> "initGUI", arg |-> <<>>, calls |-> <<>>]
              /\ UNCHANGED <<gui, heap>>
         ELSE /\ m_imguiDescPool' = nextH
              /\ live' = live \cup {nextH}
              /\ nextH' = nextH + 1
              /\ imguiCtx' = TRUE
              /\ imguiContexts' = imguiContexts + 1
              /\ last' = [op |-> "initGUI", arg |-> <<>>,
                          calls |-> << Call("createDescriptorPool", nextH, NullHandle),
                                       Call("ImGui::CreateContext", NullHandle,
                                            NullHandle),
                                       Call("ImGui_ImplVulkan_Init", nextH,
                                            m_renderPass) >>]
              /\ IF checkVkResult(result) = "abort" THEN Crashes ELSE UNCHANGED ctl
              /\ UNCHANGED imguiDisplaySize
    /\ UNCHANGED <<env, m_inputs, inst, phys, dev, m_swapchain, cmd, depthv, rp,
                   m_framebuffers, sync, sz>>

(***************************************************************************)
(* The lifecycle specification.                                            *)
(***************************************************************************)
SetupVulkan ==
    \/ InitInstance \/ SetupDebugMessenger \/ CreateSurface
    \/ PickPhysicalDevice \/ CreateLogicalDeviceAndQueues \/ CreateSwapChain
    \/ CreateCommandPool \/ CreateCommandBuffer \/ CreateDepthBuffer
    \/ CreateRenderPass \/ CreatePipelineCache \/ CreateFrameBuffers
    \/ CreateSyncObjects

Next ==
    \/ SetupVulkan
    \/ PrepareFrame \/ FenceWaitReturns \/ FenceWaitThrows \/ FenceWaitTimesOut
    \/ FenceWaitOutOfRange
    \/ SubmitFrame \/ SubmitFrameOutOfRange
    \/ GpuComplete
    \/ OnWindowResize \/ ResizeRebuild
    \/ InitGUI
    \/ Destroy

Spec == Init /\ [][Next]_vars

\* bring-up followed by an alternating prepareFrame / submitFrame sequence
\* (the only resizes are those prepareFrame itself calls), under the
\* scheduling the frame loop relies on: the GPU completes what was submitted
\* to it, the polling loop of prepareFrame keeps running, and the idle waits
\* of onWindowResize return once the GPU is idle
SpecFrames ==
    /\ Init
    /\ [][ \/ SetupVulkan
           \/ PrepareFrame \/ FenceWaitReturns \/ FenceWaitThrows
           \/ FenceWaitTimesOut \/ FenceWaitOutOfRange
           \/ SubmitFrame \/ SubmitFrameOutOfRange
           \/ GpuComplete
           \/ ResizeRebuild ]_vars
    /\ WF_vars(GpuComplete)
    /\ WF_vars(FenceWaitReturns)
    /\ WF_vars(FenceWaitOutOfRange)
    /\ WF_vars(ResizeRebuild)

(***************************************************************************)
(* pickPhysicalDevice on its own: the backend stands at that call, with    *)
(* the instance and the surface created, over every bounded enumeration.   *)
(***************************************************************************)
AtPickPhysicalDevice ==
    /\ pc = "setup" /\ ip = 4 /\ done = SubSeq(SetupOrder, 1, 3)
    /\ resizeRet = "ready" /\ resizes = 0 /\ err = NoError
    /\ info = MainInfo(FALSE)
    /\ availableLayers = {}
    /\ winSize = InitialSize
    /\ m_instance = 1 /\ m_debugMessenger = NullHandle /\ m_surface = 2
    /\ enabledLayers = <<>>
    /\ MembersNull
    /\ m_size = winSize /\ camSize = winSize
    /\ live = {1, 2} /\ nextH = 3

InitPick == devices \in DeviceLists /\ AtPickPhysicalDevice

SpecPick == InitPick /\ [][PickPhysicalDevice]_vars

InitSample ==
    /\ devices \in { <<GoodDevice(c, d)>> : c \in SampleMasks, d \in SampleMasks }
    /\ AtPickPhysicalDevice

SpecSample == InitSample /\ [][PickPhysicalDevice]_vars

\* pickPhysicalDevice followed by createLogicalDeviceAndQueues, over every
\* bounded enumeration
SpecDevice == InitPick /\ [][PickPhysicalDevice \/ CreateLogicalDeviceAndQueues]_vars

(***************************************************************************)
(* createDepthBuffer called again and again by the application: the       *)
(* backend stands where setupVulkan is about to call it for the first      *)
(* time, with one swapchain image and one command buffer.  A caller that   *)
(* catches the exception of a failed call may call again; err keeps the    *)
(* first failure.                                                          *)
(***************************************************************************)
AtCreateDepthBuffer ==
    /\ pc = "setup" /\ ip = 9 /\ done = SubSeq(SetupOrder, 1, 8)
    /\ resizeRet = "ready" /\ resizes = 0 /\ err = NoError
    /\ winSize = m_size
    /\ m_instance = 1 /\ m_debugMessenger = NullHandle /\ m_surface = 2
    /\ enabledLayers = <<>>
    /\ availableLayers = {}
    /\ MainNotRun
    /\ m_physicalDevice = 1
    /\ m_graphicsQueueIdx = ToUInt(0) /\ m_presentQueueIdx = ToUInt(0)
    /\ m_sampleCount = SelectSampleCount(DefaultCounts, DefaultCounts, 1)
    /\ m_device = 3 /\ queueCreateInfos = <<ToUInt(0)>>
    /\ m_graphicsQueue = <<ToUInt(0), 0>> /\ m_presentQueue = <<ToUInt(0), 0>>
    /\ m_swapchain = SwapchainUpdate(NoSwapchain, 1, m_size)
    /\ m_commandPool = 4 /\ m_commandBuffers = <<5>>
    /\ oneTimeBuffers = 0
    /\ m_depthView = NullHandle /\ m_depthImage = NullHandle
    /\ m_depthMemory = NullHandle /\ depthExtent = <<0, 0>>
    /\ m_renderPass = NullHandle /\ m_pipelineCache = NullHandle
    /\ m_framebuffers = <<>>
    /\ m_fences = <<>> /\ signaled = {} /\ pending = {}
    /\ camSize = m_size /\ notified = UnsetPair
    /\ m_inputs = NoInputs
    /\ m_imguiDescPool = NullHandle /\ imguiCtx = FALSE /\ imguiContexts = 0
    /\ imguiDisplaySize = UnsetPair
    /\ live = 1..5 /\ nextH = 6
    /\ last = NoCall

InitDepth ==
    /\ devices = <<GoodDevice(DefaultCounts, DefaultCounts)>>
    /\ info = MainInfo(FALSE)
    /\ m_size \in (1..MaxDim) \X (1..MaxDim)
    /\ AtCreateDepthBuffer

\* one call of createDepthBuffer, returning or throwing
CreateDepthBufferCall ==
    /\ AtStep("createDepthBuffer")
    /\ nextH + 3 <= 6 + 3 * MaxDepthCalls
    /\ \E fp \in DepthFailPoints, bits \in MemoryTypeBits :
         LET r == CreateDepthBufferOp(live, nextH, m_depthView, m_depthImage,
                                      m_depthMemory, m_size, fp, bits,
                                      MemoryTypes)
         IN  /\ live' = r.live /\ nextH' = r.next
             /\ m_depthView' = r.view /\ m_depthImage' = r.image
             /\ m_depthMemory' = r.memory
             /\ depthExtent' = IF r.image # m_depthImage THEN r.extent
                               ELSE depthExtent
             /\ last' = [op |-> "createDepthBuffer", arg |-> m_size,
                         calls |-> r.calls]
             /\ oneTimeBuffers' = oneTimeBuffers + r.oneTime
             /\ err' = IF err = NoError THEN r.err ELSE err
    /\ UNCHANGED <<pc, ip, done, resizeRet, resizes>>
    /\ UNCHANGED <<env, m_inputs, gui, inst, phys, dev, m_swapchain,
                   m_commandPool, m_commandBuffers, rp, m_framebuffers, sync, sz>>

SpecDepth == InitDepth /\ [][CreateDepthBufferCall]_vars

\* the same calls on a device with any bounded list of memory types
InitMemType ==
    /\ devices \in { << [GoodDevice(DefaultCounts, DefaultCounts) EXCEPT
                             !.memTypes = t] >> : t \in MemoryTypeLists }
    /\ info = MainInfo(FALSE)
    /\ m_size = InitialSize
    /\ AtCreateDepthBuffer

SpecMemType == InitMemType /\ [][CreateDepthBufferCall]_vars

(***************************************************************************)
(* The application builds a ContextCreateInfo with the add functions and   *)
(* hands it to setupVulkan, whose first call is initInstance.              *)
(***************************************************************************)
\* the layer names passed to addValidationLayer
LayerNames == {KhronosLayer, "VK_LAYER_LUNARG_api_dump"}

\* the add calls made on a configuration since its construction
AddsDone(ci) ==
    ci.numDeviceExtensions + ci.numValidationLayers + ci.numInstanceExtensions
      - (IF ci.enableValidationLayers THEN 2 ELSE 0)

InitConfig ==
    /\ info \in { ContextCreateInfoCtor(enable) : enable \in BOOLEAN }
    /\ availableLayers \in SUBSET LayerNames
    /\ devices = <<GoodDevice(DefaultCounts, DefaultCounts)>>
    /\ winSize = InitialSize
    /\ pc = "config" /\ ConstructedMembers

\* one add call on the configuration; last records it
AddCall(op, name, ci) ==
    /\ pc = "config"
    /\ AddsDone(info) < MaxAdds
    /\ info' = ci
    /\ last' = [op |-> op, arg |-> name, calls |-> <<>>]
    /\ UNCHANGED <<ctl, devices, winSize, availableLayers, m_inputs, gui, app, inst, phys, dev,
                   m_swapchain, cmd, depthv, rp, m_framebuffers, sync, sz, heap>>

AddDeviceExtension ==
    \E name \in {"VK_KHR_swapchain"} :
       AddCall("addDeviceExtension", name, addDeviceExtension(info, name))

AddInstanceExtension ==
    \E name \in {"VK_KHR_surface"} :
       AddCall("addInstanceExtension", name, addInstanceExtension(info, name))

AddValidationLayer ==
    \E name \in LayerNames :
       AddCall("addValidationLayer", name, addValidationLayer(info, name))

\* the application calls setupVulkan(info, window)
CallSetupVulkan ==
    /\ pc = "config"
    /\ pc' = "setup"
    /\ UNCHANGED <<ip, done, resizeRet, resizes, err>>
    /\ UNCHANGED <<last, env, m_inputs, gui, inst, phys, dev, m_swapchain, cmd, depthv, rp,
                   m_framebuffers, sync, sz, heap>>

SpecConfig ==
    InitConfig /\ [][ \/ AddDeviceExtension \/ AddInstanceExtension
                      \/ AddValidationLayer
                      \/ CallSetupVulkan
                      \/ InitInstance ]_vars

(***************************************************************************)
(* The input handlers, as functions of m_inputs and the event.  capture   *)
(* stands for ImGui::GetCurrentContext() != nullptr together with the      *)
(* WantCapture flag the handler reads; the calls on the camera             *)
(* manipulator and on the inertial camera go to the call log, a direction  *)
(* of s_moveStep as 1 or -1.                                               *)
(***************************************************************************)
\* the switch of onKeyboard
KeyCalls(key, ctrl) ==
    CASE key = "LEFT" -> <<Call("m_inertCamera.rotateH", NullHandle, <<1, ctrl>>)>>
      [] key = "UP" -> <<Call("m_inertCamera.rotateV", NullHandle, <<1, ctrl>>)>>
      [] key = "RIGHT" -> <<Call("m_inertCamera.rotateH", NullHandle, <<0 - 1, ctrl>>)>>
      [] key = "DOWN" -> <<Call("m_inertCamera.rotateV", NullHandle, <<0 - 1, ctrl>>)>>
      [] key = "PAGE_UP" -> <<Call("m_inertCamera.move", NullHandle, <<1, ctrl>>)>>
      [] key = "PAGE_DOWN" -> <<Call("m_inertCamera.move", NullHandle, <<0 - 1, ctrl>>)>>
      [] OTHER -> <<>>

OnKeyboardOp(inputs, key, action, capture) ==
    LET pressed == action # "RELEASE"
        inp == [inputs EXCEPT
                  !.ctrl = IF key = "LEFT_CONTROL" THEN pressed ELSE @,
                  !.shift = IF key = "LEFT_SHIFT" THEN pressed ELSE @,
                  !.alt = IF key = "LEFT_ALT" THEN pressed ELSE @]
    IN  IF action = "RELEASE" \/ capture
        THEN [inputs |-> inp, close |-> FALSE, calls |-> <<>>]
        ELSE [inputs |-> inp, close |-> key = "ESCAPE",
              calls |-> KeyCalls(key, inp.ctrl)]

\* onMouseMove: dx, dy are the differences to the old mouse position
OnMouseMoveOp(inputs, capture) ==
    IF capture THEN <<>>
    ELSE (IF inputs.lmb \/ inputs.rmb \/ inputs.mmb
          THEN <<Call("CameraManipulator.mouseMove", NullHandle, inputs)>>
          ELSE <<>>)
         \o (IF inputs.lmb
             THEN << Call("m_inertCamera.rotateH", NullHandle, <<"dx", FALSE>>),
                     Call("m_inertCamera.rotateV", NullHandle, <<"dy", FALSE>>) >>
             ELSE <<>>)
         \o (IF inputs.mmb
             THEN << Call("m_inertCamera.rotateH", NullHandle, <<"dx", TRUE>>),
                     Call("m_inertCamera.rotateV", NullHandle, <<"dy", TRUE>>) >>
             ELSE <<>>)
         \o (IF inputs.rmb
             THEN << Call("m_inertCamera.rotateH", NullHandle, <<"dx", inputs.ctrl>>),
                     Call("m_inertCamera.move", NullHandle, <<"-dy", inputs.ctrl>>) >>
             ELSE <<>>)

\* an onMouseButton that sets the flag of a pressed button and clears the
\* flag of a released one, leaving the other flags alone
OnMouseButtonOp_OwnFlagOnly(inputs, button, action, capture) ==
    IF capture THEN [inputs |-> inputs, calls |-> <<>>]
    ELSE [inputs |->
            [inputs EXCEPT
               !.lmb = IF button = "LEFT" THEN action = "PRESS" ELSE @,
               !.mmb = IF button = "MIDDLE" THEN action = "PRESS" ELSE @,
               !.rmb = IF button = "RIGHT" THEN action = "PRESS" ELSE @],
          calls |-> <<Call("CameraManipulator.setMousePosition", NullHandle,
                           "cursor")>>]

OnMouseButtonOp(inputs, button, action, capture) ==
    IF capture THEN [inputs |-> inputs, calls |-> <<>>]
    ELSE [inputs |->
            [inputs EXCEPT
               !.lmb = (button = "LEFT") /\ (action = "PRESS"),
               !.mmb = (button = "MIDDLE") /\ (action = "PRESS"),
               !.rmb = (button = "RIGHT") /\ (action = "PRESS")],
          calls |-> <<Call("CameraManipulator.setMousePosition", NullHandle,
                           "cursor")>>]

OnScrollOp(inputs, delta, capture) ==
    IF capture THEN <<>>
    ELSE << Call("CameraManipulator.wheel", NullHandle,
                 IF delta > 0 THEN 1 ELSE 0 - 1),
            Call("m_inertCamera.move", NullHandle,
                 <<IF delta > 0 THEN 1 ELSE 0 - 1, inputs.ctrl>>) >>

\* static_cast<int>(y) for the scroll offset y = halves / 2: the fraction
\* is dropped, towards zero
ScrollDelta(halves) ==
    IF halves >= 0 THEN halves \div 2 ELSE 0 - ((0 - halves) \div 2)

\* one input event handled: last records the handler, the event and the
\* camera calls made
InputEvent(op, arg, inputs, calls) ==
    /\ m_inputs' = inputs
    /\ last' = [op |-> op, arg |-> arg, calls |-> calls]
    /\ UNCHANGED <<ctl, info, devices, winSize, availableLayers, exitCode, g_win,
                   g_resizeRequest, printed, cameraView>>
    /\ UNCHANGED <<inst, phys, dev, m_swapchain, cmd, depthv, rp, m_framebuffers,
                   sync, sz, gui, heap>>

\* in each handler, want is ImGui::GetIO().WantCaptureKeyboard or
\* WantCaptureMouse, read only when there is an ImGui context
OnKeyboard ==
    \E key \in {"LEFT_CONTROL", "LEFT_SHIFT", "LEFT_ALT", "ESCAPE", "LEFT", "UP",
                "RIGHT", "DOWN", "PAGE_UP", "PAGE_DOWN", "A"},
       action \in {"PRESS", "RELEASE", "REPEAT"}, want \in BOOLEAN :
       LET capture == imguiCtx /\ want
           r == OnKeyboardOp(m_inputs, key, action, capture) IN
       /\ InputEvent("onKeyboard", <<key, action, capture>>, r.inputs, r.calls)
       /\ shouldClose' = (shouldClose \/ r.close)

OnMouseMove ==
    \E want \in BOOLEAN :
       /\ InputEvent("onMouseMove", <<imguiCtx /\ want>>, m_inputs,
                     OnMouseMoveOp(m_inputs, imguiCtx /\ want))
       /\ UNCHANGED shouldClose

OnMouseButton ==
    \E button \in {"LEFT", "MIDDLE", "RIGHT", "4"}, action \in {"PRESS", "RELEASE"},
       want \in BOOLEAN :
       LET capture == imguiCtx /\ want
           r == OnMouseButtonOp(m_inputs, button, action, capture) IN
       /\ InputEvent("onMouseButton", <<button, action, capture>>, r.inputs,
                     r.calls)
       /\ UNCHANGED shouldClose

\* onScrollCallback, which calls onScroll with the truncated offset
OnScroll ==
    \E halves \in (0 - MaxScroll)..MaxScroll, want \in BOOLEAN :
       /\ InputEvent("onScroll", <<ScrollDelta(halves), imguiCtx /\ want>>,
                     m_inputs,
                     OnScrollOp(m_inputs, ScrollDelta(halves), imguiCtx /\ want))
       /\ UNCHANGED shouldClose

\* the backend after setupVulkan has returned on the default device with one
\* swapchain image: every member created, nothing drawn yet
AtReady ==
    /\ pc = "ready" /\ ip = Len(SetupOrder) + 1 /\ done = SetupOrder
    /\ resizeRet = "ready" /\ resizes = 0 /\ err = NoError
    /\ info = MainInfo(FALSE)
    /\ devices = <<GoodDevice(DefaultCounts, DefaultCounts)>>
    /\ availableLayers = {}
    /\ winSize = InitialSize
    /\ MainNotRun
    /\ m_instance = 1 /\ m_debugMessenger = NullHandle /\ m_surface = 2
    /\ enabledLayers = <<>>
    /\ m_physicalDevice = 1
    /\ m_graphicsQueueIdx = ToUInt(0) /\ m_presentQueueIdx = ToUInt(0)
    /\ m_sampleCount = SelectSampleCount(DefaultCounts, DefaultCounts, 1)
    /\ m_device = 3 /\ queueCreateInfos = <<ToUInt(0)>>
    /\ m_graphicsQueue = <<ToUInt(0), 0>> /\ m_presentQueue = <<ToUInt(0), 0>>
    /\ m_size = winSize /\ camSize = winSize /\ notified = UnsetPair
    /\ m_swapchain = SwapchainUpdate(NoSwapchain, 1, m_size)
    /\ m_commandPool = 4 /\ m_commandBuffers = <<5>>
    /\ oneTimeBuffers = 0
    /\ m_depthImage = 6 /\ m_depthMemory = 7 /\ m_depthView = 8
    /\ depthExtent = m_size
    /\ m_renderPass = 9 /\ m_pipelineCache = 10
    /\ m_framebuffers = << [h |-> 11, color |-> <<1, 0>>, depth |-> 8,
                            pass |-> 9, extent |-> m_size] >>
    /\ m_fences = <<12>> /\ signaled = {12} /\ pending = {}
    /\ m_inputs = NoInputs
    /\ m_imguiDescPool = NullHandle /\ imguiCtx = FALSE /\ imguiContexts = 0
    /\ imguiDisplaySize = UnsetPair
    /\ live = 1..12 /\ nextH = 13
    /\ last = NoCall

\* the backend after bring-up: the GUI is initialised at some point, input
\* events arrive
SpecInput ==
    AtReady /\ [][InitGUI \/ OnKeyboard \/ OnMouseMove \/ OnMouseButton \/ OnScroll]_vars

\* bring-up, frames and resizes together with the input events of the
\* window.  The events are delivered by glfwPollEvents at the top of a loop
\* iteration, between two frames, while the window is not to be closed;
\* they are taken here while no button or modifier is held (sequences of
\* events on held buttons are those of SpecInput)
SpecExtent ==
    /\ Init
    /\ [][ \/ SetupVulkan
           \/ PrepareFrame \/ FenceWaitReturns \/ FenceWaitThrows
           \/ FenceWaitTimesOut \/ FenceWaitOutOfRange
           \/ SubmitFrame \/ SubmitFrameOutOfRange
           \/ GpuComplete
           \/ OnWindowResize \/ ResizeRebuild
           \/ /\ pc = "ready" /\ m_inputs = NoInputs /\ ~shouldClose
              /\ (OnKeyboard \/ OnMouseMove \/ OnMouseButton \/ OnScroll) ]_vars

\* createFrameBuffers called by the application itself after bring-up, as
\* main does: the framebuffers are rebuilt for the current swapchain
CreateFrameBuffersCall ==
    /\ pc = "ready"
    /\ nextH + m_swapchain.imageCount <= MaxHandle
    /\ \E failAt \in 0..m_swapchain.imageCount, named \in BOOLEAN :
         LET r == CreateFrameBuffersOp(live, nextH, m_framebuffers, m_swapchain,
                                       m_depthView, m_renderPass, m_size, failAt,
                                       named)
         IN  /\ live' = r.live /\ nextH' = r.next
             /\ m_framebuffers' = r.fbs
             /\ last' = [op |-> "createFrameBuffers", arg |-> m_size,
                         calls |-> r.calls]
             /\ IF r.err = NoError THEN UNCHANGED ctl ELSE Throws(r.err)
    /\ UNCHANGED <<env, m_inputs, gui, inst, phys, dev, m_swapchain, cmd, depthv,
                   rp, sync, sz>>

\* bring-up followed by any sequence of createFrameBuffers calls and
\* resizes
SpecFramebuffers ==
    Init /\ [][ \/ SetupVulkan
                \/ OnWindowResize \/ ResizeRebuild
                \/ CreateFrameBuffersCall ]_vars

(***************************************************************************)
(* image::mipLevels, called with extents of the bounded range.             *)
(***************************************************************************)
Max(a, b) == IF a < b THEN b ELSE a

\* std::floor(std::log2(x)) for 1 <= x < 2^30: the k with
\* 2^k <= x < 2^(k+1)
FloorLog2(x) == CHOOSE k \in 0..Min(x, 29) : 2 ^ k <= x /\ x < 2 ^ (k + 1)

\* a level count without the base level
mipLevels_NoBaseLevel(extent) == ToUInt(FloorLog2(Max(extent[1], extent[2])))

\* extent is <<width, height>> with a non-zero larger dimension
mipLevels(extent) == ToUInt(FloorLog2(Max(extent[1], extent[2])) + 1)

\* log2(0) is minus infinity, and its conversion to uint32_t is undefined:
\* the values a build may return for an extent of 0 x 0
MipLevelsOfEmpty == {ToUInt(0), ToUInt(1), ToUInt(0 - 1)}

MipLevelsCall ==
    /\ \E w \in 0..MaxExtent, h \in 0..MaxExtent, garbage \in MipLevelsOfEmpty :
         last' = [op |-> "mipLevels", arg |-> <<w, h>>,
                  calls |-> IF Max(w, h) = 0 THEN <<garbage>>
                            ELSE <<mipLevels(<<w, h>>)>>]
    /\ UNCHANGED <<ctl, env, m_inputs, gui, inst, phys, dev, m_swapchain, cmd, depthv,
                   rp, m_framebuffers, sync, sz, heap>>

SpecMip == AtReady /\ [][MipLevelsCall]_vars

(***************************************************************************)
(* main: window and bring-up calls, the event loop, teardown, and the      *)
(* handler of std::exception around all of it.  The calls on vulkanBase    *)
(* return or throw; done lists the calls that returned, resizes counts the *)
(* onWindowResize calls of the loop, err is the exception in flight.       *)
(***************************************************************************)
MainBringUp ==
    << "window and camera", "setupVulkan", "createSurface", "createDepthBuffer",
       "createRenderPass", "createFrameBuffers", "exampleVulkan.init" >>

MainCleanup == << "waitIdle", "destroy", "glfwDestroyWindow" >>

\* the calls of main that can throw
MainCanThrow ==
    { "setupVulkan", "createSurface", "createDepthBuffer", "createRenderPass",
      "createFrameBuffers", "exampleVulkan.init", "onWindowResize", "waitIdle",
      "destroy" }

MainError(call) == <<"exception", call>>

\* a handler that reports success
MainCatchCode_Success == "EXIT_SUCCESS"

\* the value the handler returns
MainCatchCode == "EXIT_FAILURE"

InitMain ==
    /\ info \in { MainInfo(enable) : enable \in BOOLEAN }
    /\ availableLayers = {}
    /\ devices = <<GoodDevice(DefaultCounts, DefaultCounts)>>
    /\ winSize = InitialSize
    /\ pc = "bringUp" /\ ConstructedMembers

\* the backend, which this specification leaves behind its calls
BackendUnchanged ==
    UNCHANGED <<inst, phys, dev, m_swapchain, cmd, depthv, rp, m_framebuffers,
                sync, sz, heap>>

\* an exception leaves the try block from the given call
MainThrows(call) ==
    /\ call \in MainCanThrow
    /\ pc' = "thrown"
    /\ err' = MainError(call)
    /\ UNCHANGED <<ip, done, resizeRet, resizes>>

\* one call of the bring-up sequence
MainBringUpCall ==
    /\ pc = "bringUp"
    /\ \/ /\ done' = Append(done, MainBringUp[ip])
          /\ IF ip = Len(MainBringUp)
             THEN pc' = "loopTest" /\ ip' = 1
             ELSE pc' = pc /\ ip' = ip + 1
          /\ UNCHANGED <<resizeRet, resizes, err>>
       \/ MainThrows(MainBringUp[ip])
    /\ cameraView' = IF pc' # "thrown" /\ ip = 1 THEN g_win ELSE cameraView
    /\ UNCHANGED <<last, info, devices, winSize, availableLayers, m_inputs, gui, exitCode,
                   g_win, g_resizeRequest, shouldClose, printed>>
    /\ BackendUnchanged

\* while (!glfwWindowShouldClose(window))
MainLoopTest ==
    /\ pc = "loopTest"
    /\ pc' = IF shouldClose THEN "cleanup" ELSE "poll"
    /\ UNCHANGED <<ip, done, resizeRet, resizes, err>>
    /\ UNCHANGED <<last, env, m_inputs, gui>>
    /\ BackendUnchanged

\* glfwPollEvents delivers a framebuffer-size event: onResizeCallback(w, h)
OnResizeCallback ==
    /\ pc = "poll"
    /\ resizes < MaxMainResizes
    /\ \E w \in Dims, h \in Dims :
         /\ winSize' = <<w, h>>
         /\ cameraView' = <<w, h>>
         /\ g_win' = <<w, h>>
    /\ g_resizeRequest' = TRUE
    /\ last' = [op |-> "onResizeCallback", arg |-> winSize', calls |-> <<>>]
    /\ UNCHANGED <<ctl, info, devices, availableLayers, m_inputs, gui, exitCode, shouldClose,
                   printed>>
    /\ BackendUnchanged

\* glfwPollEvents delivers a key event: onKeyCallback; quit stands for
\* GLFW_KEY_ESCAPE or GLFW_KEY_Q, release for GLFW_RELEASE
OnKeyCallback ==
    /\ pc = "poll"
    /\ \E quit \in BOOLEAN, release \in BOOLEAN :
         shouldClose' = IF ~release /\ quit THEN TRUE ELSE shouldClose
    /\ UNCHANGED <<ctl, info, devices, winSize, availableLayers, m_inputs, gui, exitCode, g_win,
                   g_resizeRequest, printed, cameraView, last>>
    /\ BackendUnchanged

\* the user closes the window: GLFW sets the close flag itself
WindowClose ==
    /\ pc = "poll"
    /\ shouldClose' = TRUE
    /\ UNCHANGED <<ctl, info, devices, winSize, availableLayers, m_inputs, gui, exitCode, g_win,
                   g_resizeRequest, printed, cameraView, last>>
    /\ BackendUnchanged

\* glfwPollEvents returns
PollReturns ==
    /\ pc = "poll"
    /\ pc' = "handle"
    /\ UNCHANGED <<ip, done, resizeRet, resizes, err>>
    /\ UNCHANGED <<last, env, m_inputs, gui>>
    /\ BackendUnchanged

\* a loop body that calls onWindowResize and leaves the request standing
HandleResizeOp_KeepsRequest(request, size) ==
    [call |-> request, arg |-> size, request |-> request]

\* the if of the loop body, as a function of g_resizeRequest and the size
HandleResizeOp(request, size) ==
    [call |-> request, arg |-> size, request |-> FALSE]

\* the rest of the loop body
HandleResize ==
    /\ pc = "handle"
    /\ LET r == HandleResizeOp(g_resizeRequest, g_win) IN
       IF ~r.call
       THEN /\ pc' = "loopTest"
            /\ g_resizeRequest' = r.request
            /\ UNCHANGED <<ip, done, resizeRet, resizes, err, last>>
       ELSE /\ last' = [op |-> "onWindowResize", arg |-> r.arg, calls |-> <<>>]
            /\ resizes' = resizes + 1
            /\ \/ /\ pc' = "loopTest"
                  /\ g_resizeRequest' = r.request
                  /\ UNCHANGED err
               \/ /\ pc' = "thrown"
                  /\ err' = MainError("onWindowResize")
                  /\ UNCHANGED g_resizeRequest
            /\ UNCHANGED <<ip, done, resizeRet>>
    /\ UNCHANGED <<info, devices, winSize, availableLayers, m_inputs, gui, exitCode, g_win,
                   shouldClose, printed, cameraView>>
    /\ BackendUnchanged

\* one call of the cleanup after the loop; falling out of the try block,
\* main returns EXIT_SUCCESS
MainCleanupCall ==
    /\ pc = "cleanup"
    /\ \/ /\ done' = Append(done, MainCleanup[ip])
          /\ IF ip = Len(MainCleanup)
             THEN pc' = "exited" /\ exitCode' = "EXIT_SUCCESS" /\ ip' = ip
             ELSE pc' = pc /\ ip' = ip + 1 /\ UNCHANGED exitCode
          /\ UNCHANGED <<resizeRet, resizes, err>>
       \/ MainThrows(MainCleanup[ip]) /\ UNCHANGED exitCode
    /\ UNCHANGED <<last, info, devices, winSize, availableLayers, m_inputs, gui, g_win,
                   g_resizeRequest, shouldClose, printed, cameraView>>
    /\ BackendUnchanged

\* catch (const std::exception& e)
MainCatch ==
    /\ pc = "thrown"
    /\ printed' = err
    /\ exitCode' = MainCatchCode
    /\ pc' = "exited"
    /\ UNCHANGED <<ip, done, resizeRet, resizes, err>>
    /\ UNCHANGED <<last, info, devices, winSize, availableLayers, m_inputs, gui, g_win,
                   g_resizeRequest, shouldClose, cameraView>>
    /\ BackendUnchanged

SpecMain ==
    /\ InitMain
    /\ [][ \/ MainBringUpCall \/ MainLoopTest
           \/ OnResizeCallback \/ OnKeyCallback \/ WindowClose \/ PollReturns
           \/ HandleResize
           \/ MainCleanupCall \/ MainCatch ]_vars

(***************************************************************************)
(* Claims about pickPhysicalDevice.                                        *)
(***************************************************************************)
\* the call returned normally / the call is over (returned or threw)
PickReturned == "pickPhysicalDevice" \in Range(done)
\* pickPhysicalDevice threw an exception of its own: every driver call it
\* made returned
PickThrew ==
    /\ pc = "setupFailed" /\ SetupOrder[ip] = "pickPhysicalDevice"
    /\ err \notin PickThrowingCalls(devices, info.deviceExtensions)
PickFinished == PickReturned \/ PickThrew

\* the four qualification predicates, as the specification states them
HasGraphicsFamily(d) ==
    \E j \in 1..Len(d.fams) : d.fams[j].count > 0 /\ "G" \in d.fams[j].flags
HasPresentFamily(d) ==
    \E j \in 1..Len(d.fams) : d.fams[j].count > 0 /\ d.fams[j].present
Qualifies(d) ==
    /\ d.formats >= 1
    /\ d.modes >= 1
    /\ Range(info.deviceExtensions) \subseteq d.exts
    /\ HasGraphicsFamily(d) /\ HasPresentFamily(d)
SomeQualifies == \E k \in 1..Len(devices) : Qualifies(devices[k])
FirstQualifying ==
    CHOOSE k \in 1..Len(devices) :
        Qualifies(devices[k]) /\ \A j \in 1..(k - 1) : ~Qualifies(devices[j])

\* C1: when some enumerated device satisfies all four predicates, the device
\* recorded by pickPhysicalDevice is the first such device in enumeration
\* order (so no earlier device that fails a predicate is chosen).
C1_FirstQualifyingDeviceChosen ==
    (PickFinished /\ SomeQualifies) => m_physicalDevice = FirstQualifying

\* C2: when no enumerated device satisfies all four predicates, the call
\* throws a no-suitable-device error and records neither a physical device
\* nor a queue family index.
C2_NoQualifyingDeviceFails ==
    (PickFinished /\ ~SomeQualifies) =>
        /\ PickThrew
        /\ err \in { "failed to find a suitable GPU!",
                     "failed to find GPUs with Vulkan support!" }
        /\ m_physicalDevice = NullHandle
        /\ m_graphicsQueueIdx = UnsetIdx /\ m_presentQueueIdx = UnsetIdx

ClaimSampleCounts == {64, 32, 16, 8, 4, 2, 1}
CommonCounts(c, d) == { b \in ClaimSampleCounts : HasBit(c, b) /\ HasBit(d, b) }
HighestCommon(c, d) ==
    CHOOSE b \in CommonCounts(c, d) : \A x \in CommonCounts(c, d) : x <= b

\* C3: the recorded sample count is the highest member of {64,...,1} that
\* both the color and the depth limits of the chosen device support.
C3_HighestCommonSampleCount ==
    PickReturned =>
        m_sampleCount = HighestCommon(devices[m_physicalDevice].color,
                                      devices[m_physicalDevice].depth)

\* C4: after pickPhysicalDevice succeeds, the graphics index names a family
\* of the chosen device with queues that supports graphics, compute and
\* transfer, and the present index names a family with queues that can
\* present to the surface.
C4_QueueIndicesValid ==
    PickReturned =>
        LET fams == devices[m_physicalDevice].fams
            g == m_graphicsQueueIdx
            p == m_presentQueueIdx
        IN  /\ g[1] = 0 /\ g[2] < Len(fams)
            /\ fams[g[2] + 1].count > 0
            /\ QueueBits \subseteq fams[g[2] + 1].flags
            /\ p[1] = 0 /\ p[2] < Len(fams)
            /\ fams[p[2] + 1].count > 0
            /\ fams[p[2] + 1].present

(***************************************************************************)
(* Claims about bring-up.                                                  *)
(***************************************************************************)
\* C5: when a bring-up step throws, every resource created by the earlier
\* steps has been released by the time the exception reaches the caller.
C5_SetupFailureReleasesEverything ==
    pc = "setupFailed" =>
        (live = {} /\ oneTimeBuffers = 0 /\ ~m_swapchain.live)

\* the order of creation the specification states
ClaimOrder ==
    << "initInstance", "createSurface", "pickPhysicalDevice",
       "createLogicalDeviceAndQueues", "createSwapChain", "createCommandPool",
       "createCommandBuffer", "createDepthBuffer", "createRenderPass",
       "createPipelineCache", "createFrameBuffers", "createSyncObjects" >>

\* what each step needs to have completed before it starts
ClaimDeps(step) ==
    CASE step = "createSurface" -> {"initInstance"}
      [] step = "pickPhysicalDevice" -> {"initInstance", "createSurface"}
      [] step = "createLogicalDeviceAndQueues" -> {"pickPhysicalDevice"}
      [] step = "createSwapChain" -> {"createSurface", "createLogicalDeviceAndQueues"}
      [] step = "createCommandPool" -> {"createLogicalDeviceAndQueues"}
      [] step = "createCommandBuffer" -> {"createCommandPool", "createSwapChain"}
      [] step = "createDepthBuffer" -> {"createCommandPool", "createSurface"}
      [] step = "createRenderPass" -> {"createLogicalDeviceAndQueues", "createSwapChain"}
      [] step = "createPipelineCache" -> {"createLogicalDeviceAndQueues"}
      [] step = "createFrameBuffers" ->
             {"createSwapChain", "createDepthBuffer", "createRenderPass"}
      [] step = "createSyncObjects" -> {"createSwapChain"}
      [] OTHER -> {}

InClaimOrder(step) == step \in Range(ClaimOrder)
CreatedSoFar == SelectSeq(done, InClaimOrder)

\* C6: bring-up creates its resources in the stated strict order, and no
\* step runs (to completion or to its exception) before every step it
\* depends on has completed.
C6_SetupOrderStrict ==
    /\ CreatedSoFar = SubSeq(ClaimOrder, 1, Len(CreatedSoFar))
    /\ \A i \in 1..Len(done) :
          ClaimDeps(done[i]) \subseteq { done[j] : j \in 1..(i - 1) }
    /\ pc = "setupFailed" => ClaimDeps(SetupOrder[ip]) \subseteq Range(done)
    /\ m_depthImage # NullHandle => m_commandPool # NullHandle
    /\ (\E i \in 1..Len(m_framebuffers) : m_framebuffers[i].h # NullHandle)
          => (m_renderPass # NullHandle /\ m_depthView # NullHandle)

\* bring-up ran to its end: all thirteen calls returned
C6_Witness == pc = "ready" /\ Len(done) = Len(SetupOrder) /\ resizes = 0

(***************************************************************************)
(* Claims about the fences and the frame loop.                             *)
(***************************************************************************)
\* the step in which setupVulkan returns
SetupCompletes == pc = "setup" /\ pc' = "ready"

\* C8: at the moment setupVulkan returns there is exactly one fence per
\* swapchain image, the fences are distinct live objects, and every one of
\* them is signaled.
C8_FencesSignaledAfterSetup ==
    [][ SetupCompletes =>
          /\ Len(m_fences') = m_swapchain'.imageCount
          /\ \A i \in 1..Len(m_fences') :
                /\ m_fences'[i] \in live'
                /\ m_fences'[i] \in signaled'
                /\ \A j \in 1..Len(m_fences') : m_fences'[i] = m_fences'[j] => i = j
      ]_vars

\* bring-up has just returned with MaxImages images and their fences
C8_Witness ==
    /\ pc = "ready" /\ resizes = 0 /\ pending = {}
    /\ m_swapchain.imageCount = MaxImages
    /\ Len(m_fences) = MaxImages
    /\ \A i \in 1..Len(m_fences) : m_fences[i] \in signaled

\* C7: when prepareFrame has returned, the active image has a fence, that
\* fence is signaled, and no submission of the active image's command
\* buffer is still pending on the GPU (so submitFrame never resubmits a
\* command buffer in flight), resizes interleaved.
C7_PreparedFenceSignaled ==
    pc = "frame" =>
        /\ ActiveInRange
        /\ ActiveFence \in signaled
        /\ \A s \in pending : s.cb # ActiveCommandBuffer

\* a step of submitFrame that gets as far as the queue submit
SubmitFrameStep ==
    /\ pc = "frame" /\ pc' \in {"ready", "failed"}
    /\ err' # "vk::Device::resetFences"

\* the fences a step moves from unsignaled to signaled
NewlySignaled == { f \in Range(m_fences) : f \notin signaled /\ f \in signaled' }

\* C9: submitFrame leaves the fence of the active image unsignaled and
\* changes no other fence; a fence goes back to signaled only in a step in
\* which the GPU completes the submission that carries it.
C9_SubmitUnsignalsActiveFenceOnly ==
    [][ /\ SubmitFrameStep =>
            /\ ActiveInRange
            /\ ActiveFence \notin signaled'
            /\ \A f \in Range(m_fences) \ {ActiveFence} :
                  (f \in signaled') <=> (f \in signaled)
        /\ \A f \in NewlySignaled :
              \E s \in pending : s.fence = f /\ s \notin pending'
      ]_vars

\* the step in which prepareFrame returns to its caller
PrepareFrameReturns == pc = "prepWait" /\ pc' = "frame"

\* C10: when prepareFrame returns, the active image index names an image
\* acquired from the current swapchain (after an out-of-date or suboptimal
\* acquire: from the rebuilt one, by a second acquire).
C10_ActiveImageAcquiredFromCurrent ==
    [][ PrepareFrameReturns =>
          (m_swapchain'.acq # 0 /\ m_swapchain'.acq = m_swapchain'.gen) ]_vars

\* the fence wait reported that the device is lost: the GPU completes
\* nothing any more
DeviceLost == pc = "failed" /\ err = "vk::Device::waitForFences"

\* C11: a timeout of the bounded fence wait is not reported as an error and
\* the wait is repeated; with a GPU that completes every submission, every
\* prepareFrame that reaches its fence wait eventually returns.
C11_FenceWaitEventuallyReturns ==
    /\ [][ (pc = "prepWait" /\ ActiveInRange /\ ActiveFence \notin signaled)
              => (pc' = "prepWait" /\ err' = err) \/ DeviceLost' ]_vars
    /\ (pc = "prepWait") ~> (pc = "frame" \/ DeviceLost)

\* a step in which submitFrame runs from its first statement to its return
\* or its exception
SubmitFrameRuns ==
    pc = "frame" /\ pc' \in {"ready", "failed", "crashed"} /\ last'.op = "submitFrame"

SubmitFrameOrder == <<"resetFences", "m_graphicsQueue.submit", "m_swapchain.present">>

\* C12: submitFrame makes its calls in this order for the active image i:
\* the reset of fence i, the queue submit of command buffer i that waits on
\* the image-acquired semaphore at the colour-attachment-output stage and
\* signals the rendering-finished semaphore and fence i, and the present
\* request for image i.  A call that throws ends the sequence; the present
\* is requested only after the submit was made, and the fence handed to
\* the submit is the one reset before it, unsignaled when the submit is
\* made.
C12_SubmitFrameOrder ==
    [][ SubmitFrameRuns =>
          LET c == last'.calls IN
          /\ Len(c) <= Len(SubmitFrameOrder)
          /\ \A k \in 1..Len(c) : c[k].op = SubmitFrameOrder[k]
          /\ err' # "vk::Device::resetFences" => Len(c) >= 1
          /\ Len(c) >= 1 => (ActiveInRange /\ c[1].h = ActiveFence)
          /\ Len(c) >= 2 =>
                /\ ActiveInRange /\ c[2].h = ActiveCommandBuffer
                /\ c[2].aux.fence = c[1].h
                /\ c[2].aux.fence \notin signaled'
                /\ c[2].aux.wait = [role |-> "imageAcquired", gen |-> m_swapchain.gen]
                /\ c[2].aux.stage = "eColorAttachmentOutput"
                /\ c[2].aux.signal = [role |-> "renderingFinished", gen |-> m_swapchain.gen]
                /\ \E sub \in pending' : sub.cb = c[2].h /\ sub.fence = c[2].aux.fence
          /\ Len(c) = 3 => c[3].aux = m_swapchain.active
          /\ (m_swapchain.acq # 0 /\ m_swapchain'.acq = 0) => Len(c) = 3
      ]_vars

(***************************************************************************)
(* Claims about onWindowResize.                                            *)
(***************************************************************************)
\* a step in which onWindowResize is called with a zero width or height
ZeroResizeCalled ==
    /\ pc \in {"ready", "frame"}
    /\ last' # last
    /\ last'.op = "onWindowResize"
    /\ (last'.arg[1] = 0 \/ last'.arg[2] = 0)

\* C13: onWindowResize with width 0 or height 0 changes nothing: the stored
\* extent, the camera window size, the swapchain, the depth resource and the
\* framebuffers are as before, the caller goes on where it was, and no idle
\* wait, destroy or create call is issued.
C13_ZeroSizeResizeIsNoOp ==
    [][ ZeroResizeCalled =>
          /\ UNCHANGED <<m_size, camSize, notified, m_swapchain, depthv,
                         m_framebuffers, live, nextH, sync, cmd, rp>>
          /\ pc' = pc /\ err' = err /\ resizes' = resizes
          /\ last'.calls = <<>>
      ]_vars

\* onWindowResize(0, 1) has returned to a running frame loop
C13_Witness ==
    /\ pc = "ready" /\ last.op = "onWindowResize" /\ last.arg = <<0, 1>>
    /\ m_size = InitialSize
    /\ Len(m_framebuffers) = MaxImages
    /\ \A i \in 1..Len(m_framebuffers) : m_framebuffers[i].h \in live

\* a step in which an idle wait of onWindowResize fails: the log ends before
\* the second wait has returned
IdleWaitFails == pc = "resizeWait" /\ pc' = "failed" /\ Len(last'.calls) < 2

\* a step in which onWindowResize goes from its idle waits, both returned, to
\* its return or its exception
RebuildRuns == pc = "resizeWait" /\ pc' # "resizeWait" /\ ~IdleWaitFails

\* the stage of onWindowResize a logged call belongs to
ResizeStage(op) ==
    CASE op = "m_device.waitIdle" -> 1
      [] op = "m_graphicsQueue.waitIdle" -> 2
      [] op = "m_swapchain.update" -> 3
      [] op = "onResize" -> 4
      [] op \in {"destroyImageView", "destroyImage", "freeMemory",
                 "createImage", "allocateMemory", "createImageView"} -> 5
      [] op \in {"destroyFramebuffer", "createFramebuffer"} -> 6
      [] OTHER -> 0

\* C14: in onWindowResize with a non-zero size, nothing is pending on the
\* GPU when the idle waits have returned and the first resource is
\* destroyed; the calls then come in the order device idle wait, queue idle
\* wait, swapchain update, onResize notification (with the new size), depth
\* buffer recreation, framebuffer recreation, so the framebuffers are built
\* on the updated swapchain and the new depth view.
C14_ResizeOrder ==
    [][ RebuildRuns =>
          LET c == last'.calls IN
          /\ pending = {}
          /\ Len(c) >= 4
          /\ \A k \in 1..4 : ResizeStage(c[k].op) = k
          /\ \A k \in 5..Len(c) : ResizeStage(c[k].op) \in {5, 6}
          /\ \A j \in 1..Len(c), k \in 1..Len(c) :
                j < k => ResizeStage(c[j].op) <= ResizeStage(c[k].op)
          /\ notified' = m_size
          /\ m_swapchain'.gen = m_swapchain.gen + 1
          /\ pc' # "failed" =>
                \A i \in 1..Len(m_framebuffers') :
                   /\ m_framebuffers'[i].depth = m_depthView'
                   /\ m_framebuffers'[i].depth \notin live
                   /\ m_framebuffers'[i].color[1] = m_swapchain'.gen
      ]_vars

\* onWindowResize(2, 1) has rebuilt the depth buffer and two framebuffers
C14_Witness ==
    /\ pc = "ready" /\ resizes = 1 /\ err = NoError
    /\ last.op = "onWindowResize" /\ last.arg = <<2, 1>>
    /\ Len(m_framebuffers) = 2
    /\ \E k \in 1..Len(last.calls) : last.calls[k].op = "createFramebuffer"
    /\ \E k \in 1..Len(last.calls) :
          last.calls[k].op = "destroyImageView" /\ last.calls[k].h # NullHandle

\* onWindowResize returns normally from its rebuild
RebuildReturns == RebuildRuns /\ pc' # "failed"

\* C15: when onWindowResize(w, h) with non-zero w and h returns, the stored
\* extent, the extent asked of the swapchain and the extent of the depth
\* image are (w, h); there is one framebuffer per image, each of extent
\* (w, h), created in this call, bound to the depth view created in this
\* call and to the image view of its index in the updated swapchain; the
\* depth view and the framebuffers from before the call are gone.
C15_ResizeRebuildsEverything ==
    [][ RebuildReturns =>
          LET size == last.arg IN
          /\ ~(size[1] = 0 \/ size[2] = 0)
          /\ m_size' = size
          /\ m_swapchain'.extent = size
          /\ depthExtent' = size
          /\ {m_depthView', m_depthImage', m_depthMemory'} \subseteq live' \ live
          /\ m_depthView \notin live'
          /\ Len(m_framebuffers') = m_swapchain'.imageCount
          /\ \A i \in 1..Len(m_framebuffers') :
                /\ m_framebuffers'[i].extent = size
                /\ m_framebuffers'[i].h \in live' \ live
                /\ m_framebuffers'[i].depth = m_depthView'
                /\ m_framebuffers'[i].color = <<m_swapchain'.gen, i - 1>>
                /\ m_framebuffers'[i].pass = m_renderPass
          /\ \A i \in 1..Len(m_framebuffers) : m_framebuffers[i].h \notin live'
      ]_vars

\* onWindowResize(1, 2) has returned with everything rebuilt at 1 x 2
C15_Witness ==
    /\ pc \in {"ready", "frame"} /\ resizes = 1 /\ err = NoError
    /\ last.op = "onWindowResize" /\ last.arg = <<1, 2>>
    /\ m_size = <<1, 2>> /\ depthExtent = <<1, 2>>
    /\ m_swapchain.extent = <<1, 2>>
    /\ Len(m_framebuffers) = m_swapchain.imageCount
    /\ \A i \in 1..Len(m_framebuffers) : m_framebuffers[i].extent = <<1, 2>>

(***************************************************************************)
(* Claims about the per-image resources.                                   *)
(***************************************************************************)
\* no call is running and none has failed
Running == pc \in {"ready", "prepWait", "frame"}

\* bring-up has returned and no onWindowResize call is under way: the
\* states between the calls the application makes, those a call left with
\* an exception included
BetweenCalls ==
    /\ done = SetupOrder
    /\ pc \in {"ready", "prepWait", "frame", "failed"}

\* C16: once createFrameBuffers has returned in bring-up, and after every
\* createFrameBuffers call and every resize after bring-up, the number of
\* framebuffers equals the image count of the current swapchain, also when
\* the update changed the image count; where no call has thrown each
\* framebuffer is a live object of its own.
C16_OneFramebufferPerImage ==
    /\ BetweenCalls => Len(m_framebuffers) = m_swapchain.imageCount
    /\ (("createFrameBuffers" \in Range(done) /\ pc = "setup") \/ Running) =>
        /\ Len(m_framebuffers) = m_swapchain.imageCount
        /\ \A i \in 1..Len(m_framebuffers) :
              /\ m_framebuffers[i].h \in live
              /\ \A j \in 1..Len(m_framebuffers) :
                    m_framebuffers[i].h = m_framebuffers[j].h => i = j

\* C17: after bring-up and after any resizes there is exactly one fence and
\* exactly one command buffer per image of the current swapchain, so the
\* active image index always names an existing fence and command buffer.
C17_OneFenceAndCommandBufferPerImage ==
    Running =>
        /\ Len(m_fences) = m_swapchain.imageCount
        /\ Len(m_commandBuffers) = m_swapchain.imageCount
        /\ m_swapchain.active < Len(m_fences)
        /\ m_swapchain.active < Len(m_commandBuffers)

(***************************************************************************)
(* Claims about createDepthBuffer, destroy and the size-independent        *)
(* objects.                                                                *)
(***************************************************************************)
\* a call of createDepthBuffer returns, and so did every call before it
DepthCallReturns ==
    last'.op = "createDepthBuffer" /\ nextH' # nextH /\ err' = NoError

\* what is live besides the objects bring-up created before the depth buffer
DepthLive(l) ==
    l \ ({m_instance, m_surface, m_device, m_commandPool}
         \cup Range(m_commandBuffers))

\* C18: every call of createDepthBuffer starts with destroyImageView,
\* destroyImage, freeMemory on the previous view, image and memory, in this
\* order (null handles on the first call); after any number of consecutive
\* successful calls exactly one depth view, one depth image and one memory
\* allocation are live, they are the ones the members name, and nothing
\* else was touched.
C18_DepthBufferIdempotent ==
    [][ DepthCallReturns =>
          LET c == last'.calls IN
          /\ Len(c) = 6
          /\ c[1] = Call("destroyImageView", m_depthView, NullHandle)
          /\ c[2] = Call("destroyImage", m_depthImage, NullHandle)
          /\ c[3] = Call("freeMemory", m_depthMemory, NullHandle)
          /\ c[4].op = "createImage" /\ c[4].h = m_depthImage'
          /\ c[5].op = "allocateMemory" /\ c[5].h = m_depthMemory'
          /\ c[6].op = "createImageView" /\ c[6].h = m_depthView'
          /\ DepthLive(live') = {m_depthView', m_depthImage', m_depthMemory'}
          /\ Cardinality(DepthLive(live')) = 3
          /\ m_depthView' # NullHandle
          /\ live' \ DepthLive(live') = live \ DepthLive(live)
          /\ oneTimeBuffers' = oneTimeBuffers
      ]_vars

\* createDepthBuffer has returned three times in a row
C18_Witness ==
    /\ last.op = "createDepthBuffer" /\ err = NoError
    /\ nextH = 6 + 3 * 3
    /\ last.calls[1].h # NullHandle
    /\ m_depthView \in live

\* x cannot outlive y: x was created from y or binds it
DependsOn(x, y) ==
    \/ \E i \in 1..Len(m_framebuffers) :
          /\ x = m_framebuffers[i].h
          /\ y \in {m_framebuffers[i].pass, m_framebuffers[i].depth}
    \/ x = m_depthView /\ y = m_depthImage
    \/ x = m_depthImage /\ y = m_depthMemory
    \/ x \in Range(m_commandBuffers) /\ y = m_commandPool
    \/ /\ x \in {m_renderPass, m_depthView, m_depthImage, m_depthMemory,
                 m_pipelineCache, m_commandPool, m_imguiDescPool}
              \cup Range(m_fences) \cup Range(m_commandBuffers)
              \cup { m_framebuffers[i].h : i \in 1..Len(m_framebuffers) }
       /\ y = m_device
    \/ x \in {m_debugMessenger, m_surface, m_device} /\ y = m_instance

\* destroy() has been called, its idle wait has returned, and it ended one
\* way or the other
DestroyCalled == last.op = "destroy" /\ pc \in {"destroyed", "crashed"}

\* C19: destroy() first waits for the device to be idle and then destroys
\* in reverse dependency order: whenever a resource is destroyed, nothing
\* that depends on it is destroyed later in the call or is left live.
C19_DestroyReverseDependencyOrder ==
    DestroyCalled =>
        LET c == last.calls IN
        /\ c[1].op = "m_device.waitIdle"
        /\ \A j \in 1..Len(c), k \in 1..Len(c) :
              (j < k /\ c[j].h # NullHandle /\ c[k].h # NullHandle)
                 => ~DependsOn(c[k].h, c[j].h)
        /\ \A j \in 1..Len(c), x \in live :
              c[j].h # NullHandle => ~DependsOn(x, c[j].h)

\* a step in which destroy() runs
DestroyRuns == pc = "ready" /\ pc' \in {"destroyed", "crashed"} /\ last'.op = "destroy"

\* C20: the render pass and the pipeline cache are assigned once, in
\* bring-up; once bring-up is over both exist, and no step other than
\* destroy() - no resize, no prepareFrame, no submitFrame - destroys or
\* replaces them.
C20_RenderPassAndCacheCreatedOnce ==
    [][ /\ m_renderPass # NullHandle => m_renderPass' = m_renderPass
        /\ m_pipelineCache # NullHandle => m_pipelineCache' = m_pipelineCache
        /\ (Running \/ pc = "resizeWait") =>
              {m_renderPass, m_pipelineCache} \subseteq live \ {NullHandle}
        /\ ~DestroyRuns =>
              /\ m_renderPass \in live => m_renderPass \in live'
              /\ m_pipelineCache \in live => m_pipelineCache \in live'
      ]_vars

\* a resize has rebuilt depth buffer and framebuffers, a frame was prepared
\* after it, and render pass and pipeline cache are still the live objects
\* of bring-up (created before every object of the rebuild)
C20_Witness ==
    /\ pc = "frame" /\ resizes = 1 /\ err = NoError
    /\ last.op = "onWindowResize"
    /\ {m_renderPass, m_pipelineCache} \subseteq live
    /\ m_renderPass < m_depthImage /\ m_pipelineCache < m_depthImage
    /\ \A i \in 1..Len(m_framebuffers) : m_framebuffers[i].pass = m_renderPass

(***************************************************************************)
(* Claims about the configuration and the instance.                        *)
(***************************************************************************)
\* an add call has just run
AddRuns == info' # info

CountersMatch(ci) ==
    /\ ci.numDeviceExtensions = Len(ci.deviceExtensions)
    /\ ci.numValidationLayers = Len(ci.validationLayers)
    /\ ci.numInstanceExtensions = Len(ci.instanceExtensions)

\* the list an add function is to append to
OwnList(op) ==
    CASE op = "addDeviceExtension" -> "deviceExtensions"
      [] op = "addInstanceExtension" -> "instanceExtensions"
      [] op = "addValidationLayer" -> "validationLayers"

Lists == {"deviceExtensions", "instanceExtensions", "validationLayers"}

\* C21: every add call appends the name to the list of its own kind and
\* leaves the other two lists alone (a validation layer name never goes
\* into the device-extension list), and after it each of the three counters
\* equals the length of its list.
C21_NamesInOwnListCountersMatch ==
    [][AddRuns =>
         /\ info'[OwnList(last'.op)] = Append(info[OwnList(last'.op)], last'.arg)
         /\ \A l \in Lists \ {OwnList(last'.op)} : info'[l] = info[l]
         /\ CountersMatch(info')]_vars

\* the layers the application asked for: those the constructor put in, and
\* every name it passed to addValidationLayer
RequestedLayers(ci) ==
    Range(ci.validationLayers) \cup (Range(ci.deviceExtensions) \cap LayerNames)

InitInstanceRuns == pc = "setup" /\ ip = 1 /\ pc' # "setup"
InitInstanceReturns == pc = "setup" /\ ip = 1 /\ ip' = 2

LayerError == "validation layers requested, but not available!"

\* the Vulkan library was loaded and the enumeration of the available
\* layers returned
LayersEnumerated ==
    err' \notin {"Failed to load vulkan library!", "vk::enumerateInstanceLayerProperties"}

\* C22: with diagnostics enabled, initInstance checks every requested layer
\* (those added with addValidationLayer included) against the available
\* ones and throws the validation-layer error, creating no instance, when
\* one is missing; with diagnostics disabled it checks nothing and creates
\* the instance with no layer enabled.
C22_RequestedLayersChecked ==
    [][/\ (InitInstanceRuns \/ InitInstanceReturns) /\ info.enableValidationLayers
          /\ LayersEnumerated
          /\ ~(RequestedLayers(info) \subseteq availableLayers)
          => /\ pc' = "setupFailed" /\ err' = LayerError
             /\ m_instance' = NullHandle /\ live' = live
       /\ (InitInstanceRuns \/ InitInstanceReturns) /\ ~info.enableValidationLayers
          => err' # LayerError
       /\ InitInstanceReturns /\ ~info.enableValidationLayers
          => enabledLayers' = <<>>]_vars

DeviceReturned == "createLogicalDeviceAndQueues" \in Range(done)

\* createLogicalDeviceAndQueues has got past createDevice: it has returned,
\* or left with the exception of a naming call after both getQueue calls
DeviceCreated == m_device # NullHandle

\* C23: a createLogicalDeviceAndQueues that created the device requested
\* one queue per distinct family index among the graphics and the present
\* index (one entry when they coincide, two when they differ, no family
\* twice), and retrieved both queues at queue index 0 of their family.
C23_OneQueuePerDistinctFamily ==
    (DeviceReturned \/ DeviceCreated) =>
      /\ Range(queueCreateInfos) = {m_graphicsQueueIdx, m_presentQueueIdx}
      /\ Len(queueCreateInfos) = Cardinality({m_graphicsQueueIdx, m_presentQueueIdx})
      /\ m_graphicsQueue = <<m_graphicsQueueIdx, 0>>
      /\ m_presentQueue = <<m_presentQueueIdx, 0>>

C23_Witness ==
    /\ DeviceReturned
    /\ m_graphicsQueueIdx # m_presentQueueIdx
    /\ Len(queueCreateInfos) = 2

(***************************************************************************)
(* Claims about the memory type of the depth image.                        *)
(***************************************************************************)
\* the positions of the calls to op in a call log
CallsTo(c, op) == { k \in 1..Len(c) : c[k].op = op }

\* the indices the claim allows: bit set in the mask, type device-local
ClaimSuitable(bits, types) ==
    { i \in 0..(Len(types) - 1) :
        (bits \div (2 ^ i)) % 2 = 1 /\ "DeviceLocal" \in types[i + 1] }

SmallestOf(S) == CHOOSE i \in S : \A j \in S : i <= j

MemTypeError == "failed to find suitable memory type!"

\* a createDepthBuffer call has just created its image
DepthImageCreated ==
    /\ last'.op = "createDepthBuffer"
    /\ m_depthImage' # m_depthImage

\* C24: for every memory-type bitmask the new depth image requires and
\* every list of memory types of the device, createDepthBuffer allocates
\* from the smallest index whose bit is set in the mask and whose type is
\* device-local; when there is no such index it fails with the memory-type
\* error and allocates nothing.
C24_SmallestCompatibleDeviceLocalType ==
    [][DepthImageCreated =>
         LET c == last'.calls
             bits == c[CHOOSE k \in CallsTo(c, "createImage") : TRUE].aux
             S == ClaimSuitable(bits, MemoryTypes)
         IN  IF S = {}
             THEN /\ CallsTo(c, "allocateMemory") = {}
                  /\ m_depthMemory' = m_depthMemory
                  /\ live' \ live = {m_depthImage'}
                  /\ (err = NoError => err' = MemTypeError)
             ELSE /\ \A k \in CallsTo(c, "allocateMemory") :
                        c[k].aux = ToUInt(SmallestOf(S))
                  /\ err' # err => err' # MemTypeError]_vars

\* a call skipped a compatible memory type that is not device-local and
\* allocated from a later one
C24_Witness ==
    /\ last.op = "createDepthBuffer"
    /\ \E k \in CallsTo(last.calls, "allocateMemory") :
          UIntLess(ToUInt(0), last.calls[k].aux)
    /\ \E k \in CallsTo(last.calls, "createImage") : last.calls[k].aux % 2 = 1
    /\ m_depthMemory \in live

(***************************************************************************)
(* Claims about destroy() and about handles destroyed twice.               *)
(***************************************************************************)
\* the calls of a log that destroy or free a non-null handle
Destroys(c) ==
    { k \in 1..Len(c) :
        /\ c[k].h # NullHandle
        /\ c[k].op \notin {"createImage", "allocateMemory", "createImageView",
                            "createFramebuffer"} }

\* C27: after a complete bring-up and any frame cycles and resizes,
\* destroy() runs to its end without indexing a framebuffer, fence or
\* command buffer slot that does not exist, destroys no handle twice, and
\* leaves nothing live: every framebuffer, fence, command buffer, depth
\* resource, the render pass, pipeline cache, swapchain, command pool,
\* device, surface and instance are gone.
C27_DestroyReleasesEverythingOnce ==
    DestroyCalled =>
      /\ pc = "destroyed"
      /\ m_swapchain.imageCount <= Len(m_framebuffers)
      /\ m_swapchain.imageCount <= Len(m_fences)
      /\ m_swapchain.imageCount <= Len(m_commandBuffers)
      /\ \A j, k \in Destroys(last.calls) :
            last.calls[j].h = last.calls[k].h => j = k
      /\ live = {} /\ oneTimeBuffers = 0 /\ ~m_swapchain.live

\* C28: over sequences of createDepthBuffer calls some of which fail
\* part-way (no suitable memory type after the image was created, a failed
\* allocation or view), every view, image or memory handle a call passes to
\* a destroy or free function is live at that point: none was destroyed by
\* an earlier call.
C28_NoHandleDestroyedTwice ==
    [][last'.op = "createDepthBuffer" =>
         \A k \in Destroys(last'.calls) : last'.calls[k].h \in live]_vars

(***************************************************************************)
(* Claims about a failed acquire.                                          *)
(***************************************************************************)
AcquireError == "failed to acquire image from swapchain!"

\* prepareFrame has just had an acquire result that is none of success,
\* out-of-date and suboptimal
AcquireRefused ==
    /\ pc = "ready"
    /\ last'.op = "m_swapchain.acquire"
    /\ last'.arg \notin {"eSuccess", "eErrorOutOfDateKHR", "eSuboptimalKHR"}

\* C29: when the acquire returns a result other than success, out-of-date
\* or suboptimal, prepareFrame throws the acquire error; it does not reach
\* the fence wait, and fences, framebuffers, depth resources and swapchain
\* are as they were before the call.
C29_AcquireFailureThrowsUntouched ==
    [][AcquireRefused =>
         /\ pc' = "failed" /\ err' = AcquireError
         /\ UNCHANGED <<m_fences, signaled, pending, m_framebuffers, depthv,
                        m_swapchain, live>>]_vars

C29_Witness ==
    /\ pc = "failed" /\ err = AcquireError
    /\ last.op = "m_swapchain.acquire" /\ last.arg = "eTimeout"
    /\ m_fences # <<>>

(***************************************************************************)
(* Claims about the stored extent.                                         *)
(***************************************************************************)
SurfaceStepRuns == pc = "setup" /\ ip <= Len(SetupOrder) /\ SetupOrder[ip] = "createSurface"

\* an onWindowResize call with two non-zero dimensions has just stored them
NonZeroResizeStores ==
    /\ pc \in {"ready", "frame"}
    /\ last'.op = "onWindowResize"
    /\ last'.arg[1] # 0 /\ last'.arg[2] # 0
    /\ m_size' = last'.arg

\* C26: once createSurface has returned, and so after bring-up and after
\* every onWindowResize call, zero-size ones included, the window size the
\* camera manipulator holds equals the stored extent; and the stored extent
\* changes only in createSurface and in an onWindowResize call with
\* non-zero dimensions, never in prepareFrame, submitFrame or an input
\* handler (onKeyboard, onMouseMove, onMouseButton, onScroll).
C26_CameraMirrorsExtent ==
    [][/\ "createSurface" \in Range(done') => camSize' = m_size'
       /\ m_size' # m_size => SurfaceStepRuns \/ NonZeroResizeStores]_vars

\* a zero-size onWindowResize call after a resize that changed the extent
C26_Witness ==
    /\ pc \in {"ready", "frame"}
    /\ last.op = "onWindowResize" /\ last.arg[1] = 0
    /\ m_size # InitialSize /\ camSize = m_size

(***************************************************************************)
(* Claims about main.                                                      *)
(***************************************************************************)
\* C25: main returns the success code only after the window-close flag
\* ended the loop and the cleanup (device idle wait, destroy, window
\* destruction) completed with no exception; once an exception was raised,
\* in bring-up, loop or cleanup, main returns nothing but the failure code,
\* and it returns that with the exception's message written.
C25_ExitCodeReflectsOutcome ==
    /\ exitCode = "EXIT_SUCCESS" =>
         /\ shouldClose /\ err = NoError
         /\ done = MainBringUp \o MainCleanup
    /\ err # NoError => exitCode \in {Unset, "EXIT_FAILURE"}
    /\ pc = "exited" /\ err # NoError =>
         exitCode = "EXIT_FAILURE" /\ printed = err

C25_Witness ==
    pc = "exited" /\ exitCode = "EXIT_SUCCESS" /\ resizes > 0

\* C30: the resize callback sets the request flag and records the size it
\* is given; a loop iteration that finds the flag set calls onWindowResize
\* exactly once, with the most recent size, and clears the flag, so several
\* resize events before one iteration are handled as one; an iteration
\* that finds it clear calls nothing; nothing else calls onWindowResize or
\* clears the flag, so no request is lost or handled twice.
C30_ResizeRequestHandledOnce ==
    [][/\ pc = "poll" /\ winSize' # winSize =>
            g_resizeRequest' /\ g_win' = winSize'
       /\ pc = "handle" /\ pc' # pc =>
            IF g_resizeRequest
            THEN /\ resizes' = resizes + 1
                 /\ last'.op = "onWindowResize"
                 /\ last'.arg = g_win /\ g_win = winSize
                 /\ pc' = "loopTest" => ~g_resizeRequest'
            ELSE resizes' = resizes /\ ~g_resizeRequest' /\ last' = last
       /\ resizes' # resizes => pc = "handle"
       /\ g_resizeRequest /\ ~g_resizeRequest' => pc = "handle"
       /\ pc = "loopTest" => ~g_resizeRequest]_vars

\* two requests have been handled, the second with the size of the last
\* resize event
C30_Witness ==
    /\ pc = "loopTest" /\ resizes = 2
    /\ last.op = "onWindowResize" /\ last.arg = winSize

(***************************************************************************)
(* Claims about the input handlers.                                        *)
(***************************************************************************)
\* the buttons whose held flag is set
Held(inputs) ==
    (IF inputs.lmb THEN {"LEFT"} ELSE {})
    \cup (IF inputs.mmb THEN {"MIDDLE"} ELSE {})
    \cup (IF inputs.rmb THEN {"RIGHT"} ELSE {})

\* C31: after a mouse-button release event delivered to onMouseButton,
\* whether or not the UI overlay captures the mouse, none of the left,
\* middle and right held flags is set.
C31_ReleaseClearsButtonFlags ==
    last.op = "onMouseButton" /\ last.arg[2] = "RELEASE" => Held(m_inputs) = {}

\* the step is an onMouseButton call that got past the capture test
ButtonEventHandled == last'.op = "onMouseButton" /\ ~last'.arg[3]

\* C32: after any sequence of mouse-button events that onMouseButton
\* handles (those it does not drop because the UI captures the mouse), at
\* most one of the left, middle and right held flags is set, and it is the
\* button of the most recent handled press: a handled press leaves exactly
\* the flag of its button set (none for a button without a flag), a handled
\* release leaves none set, and nothing else changes the flags.
C32_AtMostOneButtonHeld ==
    [][/\ ButtonEventHandled =>
            Held(m_inputs') = IF last'.arg[2] = "PRESS"
                              THEN {last'.arg[1]} \cap {"LEFT", "MIDDLE", "RIGHT"}
                              ELSE {}
       /\ Held(m_inputs') # Held(m_inputs) => ButtonEventHandled
       /\ Cardinality(Held(m_inputs')) <= 1]_vars

\* a handled press of the right button
C32_Witness ==
    /\ last.op = "onMouseButton" /\ last.arg = <<"RIGHT", "PRESS", FALSE>>
    /\ Held(m_inputs) = {"RIGHT"}

\* the direction a camera call of onScroll was given
ScrollDirection(c) == IF c.op = "CameraManipulator.wheel" THEN c.aux ELSE c.aux[1]

\* C33: a scroll event whose vertical offset truncates to zero makes
\* onScroll call neither the camera zoom nor the inertial camera; the
\* camera is moved forward only for a positive delta and backward only for
\* a negative one.
C33_ZeroScrollMovesNothing ==
    last.op = "onScroll" =>
      /\ last.arg[1] = 0 => last.calls = <<>>
      /\ \A k \in 1..Len(last.calls) :
            /\ ScrollDirection(last.calls[k]) = 1 => last.arg[1] > 0
            /\ ScrollDirection(last.calls[k]) = 0 - 1 => last.arg[1] < 0

(***************************************************************************)
(* Claims about image::mipLevels.                                          *)
(***************************************************************************)
\* the number of values in the chain n, n / 2, n / 4, ... down to 1
RECURSIVE HalvingChain(_)
HalvingChain(n) == IF n <= 1 THEN 1 ELSE 1 + HalvingChain(n \div 2)

\* C34: for every extent whose larger dimension is at least 1, the level
\* count L that mipLevels returns satisfies 2^(L-1) <= max(width, height)
\* < 2^L, and equals the length of the halving chain from the larger
\* dimension down to 1.
C34_MipLevelsIsHalvingChainLength ==
    last.op = "mipLevels" /\ Max(last.arg[1], last.arg[2]) >= 1 =>
      LET n == Max(last.arg[1], last.arg[2])
          L == last.calls[1][2]
      IN  /\ last.calls[1][1] = 0
          /\ L >= 1
          /\ 2 ^ (L - 1) <= n /\ n < 2 ^ L
          /\ L = HalvingChain(n)

\* a call on an extent whose larger dimension is a power of two
C34_Witness ==
    /\ last.op = "mipLevels"
    /\ last.arg = <<3, 16>>
    /\ last.calls = <<ToUInt(5)>>

====
